---- MODULE Spec2Model ----
(***************************************************************************)
(* Model of the denwa-tiny dependency container (src/src/container.ts,     *)
(* class TinyContainer with its Registry and ClassValueProvider, the key   *)
(* helpers of utils.ts and the class metadata of decorators.ts).           *)
(*                                                                         *)
(* A container scope owns a registry (lookup key -> list of registrations) *)
(* and a private value cache (lookup key -> tag -> value).  Scopes form a  *)
(* tree through their parent reference.  resolve() is synchronous and      *)
(* re-entrant: it is modelled as one atomic action whose result is         *)
(* computed by the recursive operators Resolve / ResolveInner /            *)
(* ProviderResolve / ClassResolve, which thread the mutable part of the    *)
(* program state (the caches and the object allocation counter) through    *)
(* the nested calls exactly in the order the code performs them.           *)
(***************************************************************************)
EXTENDS Integers, Sequences, FiniteSets, TLC

(***************************************************************************)
(* Bounds of the model.                                                    *)
(***************************************************************************)
MaxScopes == 2      \* container scopes ever created (root included)
MaxRegs   == 2      \* register() calls
MaxObjs   == 3      \* objects allocated by providers and constructors
MaxDepth  == 6      \* nesting depth of re-entrant resolve calls
ChainScopes == 3    \* SpecChain: scopes (root, child, grandchild)
ChainRegs   == 1    \* SpecChain: register() calls
ChainObjs   == 2    \* SpecChain: objects allocated
TagRegs     == 2    \* SpecTag: register() calls
TagObjs     == 2    \* SpecTag: objects allocated
MissScopes  == 2    \* SpecMissing: scopes
MissRegs    == 2    \* SpecMissing: register() calls
MissObjs    == 1    \* SpecMissing: objects allocated
WireScopes  == 2    \* SpecWire: scopes
WireRegs    == 1    \* SpecWire: register() calls
WireObjs    == 2    \* SpecWire: objects allocated
FailScopes  == 2    \* SpecFail: scopes
FailRegs    == 2    \* SpecFail: register() calls
FailObjs    == 1    \* SpecFail: objects allocated
DepScopes   == 2    \* SpecDep: scopes
DepRegs     == 2    \* SpecDep: register() calls
DepObjs     == 2    \* SpecDep: objects allocated
GuardScopes == 2    \* SpecGuard: scopes
GuardRegs   == 1    \* SpecGuard: register() calls
GuardObjs   == 3    \* SpecGuard: objects allocated
FalsyScopes == 2    \* SpecFalsy: scopes
FalsyRegs   == 1    \* SpecFalsy: register() calls
FalsyObjs   == 3    \* SpecFalsy: objects allocated
BadKeyRegs  == 2    \* SpecBadKey: register() calls
RegistryRegs == 3   \* SpecRegistry: register() calls
ShadowScopes == 3   \* SpecShadow: scopes
ShadowRegs  == 2    \* SpecShadow: register() calls
AsideScopes == 3    \* SpecAside: scopes
AsideRegs   == 2    \* SpecAside: register() calls
SoloScopes  == 3    \* SpecSolo: scopes
SoloObjs    == 3    \* SpecSolo: objects allocated
StepScopes  == 2    \* SpecSteps: scopes
StepRegs    == 1    \* SpecSteps: register() calls
StepObjs    == 1    \* SpecSteps: objects allocated before a call may start
KeyMade     == 2    \* SpecKeys: calls of stringKey, symbolKey and classKey
KeyRegs     == 1    \* SpecKeys: register() calls
VoidScopes  == 2    \* SpecVoid: scopes
VoidRegs    == 1    \* SpecVoid: register() calls
VoidObjs    == 2    \* SpecVoid: objects allocated
FirstScopes == 2    \* SpecFirst: scopes
FirstRegs   == 3    \* SpecFirst: register() calls
FirstObjs   == 2    \* SpecFirst: objects allocated
IdsScopes   == 2    \* SpecIds: scopes
IdsRegs     == 2    \* SpecIds: value the id counter may reach
IdsHeld     == 3    \* SpecIds: registrations held by all registries together

(***************************************************************************)
(* Tags.  A tag parameter is a string or undefined.                        *)
(***************************************************************************)
NoTag == "<undefined>"

\* JavaScript truthiness of a tag: undefined and '' are falsy.
TagTruthy(tag) == tag # NoTag /\ tag # ""

\* tag ?? ''
ValueKey(tag) == IF tag = NoTag THEN "" ELSE tag

(***************************************************************************)
(* Keys.  A resolve key is a raw string, a raw symbol, a constructor       *)
(* function, or a wrapper object {type, name | symbol | cls}.  The field   *)
(* name carries the string text, the symbol's identity or the class name.  *)
(* Values of other shapes can be passed as keys too: shape is then what    *)
(* tells them apart ("number", "undefined", "null", "object" without a     *)
(* type for a plain object).                                               *)
(***************************************************************************)
RawKey(shape, name) == [shape |-> shape, type |-> "", name |-> name]

stringKey(name) == [shape |-> "object", type |-> "string", name |-> name]

\* the argument is the identity of the Symbol() the call creates
symbolKey(sym) == [shape |-> "object", type |-> "symbol", name |-> sym]

classKey(cls) == [shape |-> "object", type |-> "class", name |-> cls]

isWrappedKey(target) ==
    /\ target.shape = "object"
    /\ target.type \in {"string", "symbol", "class"}

InvalidKey == RawKey("invalid", "")

\* a variant of getLookupKey that hands a wrapped key back as it is
getLookupKeyWrapped(key) ==
    IF isWrappedKey(key) \/ key.shape \in {"string", "symbol", "function"}
    THEN key
    ELSE InvalidKey

\* getLookupKey: unwraps a wrapped key, returns a raw string, symbol or
\* function unchanged, and throws for anything else (result InvalidKey).
getLookupKey(key) ==
    IF isWrappedKey(key)
    THEN RawKey(IF key.type = "class" THEN "function" ELSE key.type, key.name)
    ELSE IF key.shape \in {"string", "symbol", "function"}
         THEN key
         ELSE InvalidKey

\* keys of other shapes: a number, undefined, a plain object {} (typeof
\* 'object', no type field), null, and an arrow function (typeof 'function',
\* no prototype: not a constructor)
NumberKey == RawKey("number", "7")

PlainObjectKey == RawKey("object", "")

NullKey == RawKey("null", "")

ArrowKey == RawKey("function", "arrow")

\* what getLookupKey throws when it yields no lookup key: its own
\* Error('invalid key=...'), except for null, where typeof null === 'object'
\* lets isWrappedKey read target.type of null, a TypeError of the engine
KeyFailure(key, tag) ==
    IF key.shape = "null"
    THEN [kind |-> "TypeError", msg |-> "cannot read properties of null", key |-> key,
          tag |-> tag, cls |-> "", index |-> -1, name |-> ""]
    ELSE [kind |-> "Error", msg |-> "invalid key", key |-> key, tag |-> tag,
          cls |-> "", index |-> -1, name |-> ""]

(***************************************************************************)
(* Classes known to the program, with the metadata getClassResolveInfo     *)
(* reports for them: length is the declared constructor arity, params the  *)
(* map index -> (key, tag) built from design:paramtypes and inject().      *)
(* Bar, Foo and Zul are the classes of container.test.ts; Deep is a class  *)
(* with two slots, constructor(bar: Bar, @inject(MagicKey, 'a') magic).    *)
(* FooPrime is the undecorated class of the tests (one constructor         *)
(* parameter, no metadata); NoInfo and NoType are the tests' decorated     *)
(* FooPrime after its entry 0 was deleted, respectively after the key of   *)
(* its entry 0 was set to undefined; Outer is constructor(zul: Zul,        *)
(* prime: NoType); Ping is constructor(pong: Pong) and Pong is             *)
(* constructor(ping: Ping), a cycle of declared dependencies.  Solo is an  *)
(* empty class decorated with @singleton().                                *)
(***************************************************************************)
MagicKey == symbolKey("Magic")

ClassNames ==
    {"Bar", "Foo", "Zul", "Deep", "FooPrime", "NoInfo", "NoType", "Outer", "Ping", "Pong",
     "Solo"}

\* a key that is undefined (a parameter whose type metadata is not set)
UndefinedKey == RawKey("undefined", "")

\* parameters.get(index): has is FALSE when the map holds no entry at index
Slot(key, tag) == [has |-> TRUE, key |-> key, tag |-> tag]

MissingSlot == [has |-> FALSE, key |-> UndefinedKey, tag |-> NoTag]

getClassResolveInfo(cls) ==
    CASE cls = "Bar"  -> [length |-> 0, parameters |-> << >>]
      [] cls = "Foo"  -> [length |-> 1,
                          parameters |-> <<Slot(RawKey("function", "Bar"), NoTag)>>]
      [] cls = "Zul"  -> [length |-> 1,
                          parameters |-> <<Slot(MagicKey, NoTag)>>]
      [] cls = "Deep" -> [length |-> 2,
                          parameters |-> <<Slot(RawKey("function", "Bar"), NoTag),
                                           Slot(MagicKey, "a")>>]
      [] cls = "FooPrime" -> [length |-> 1, parameters |-> << >>]
      [] cls = "NoInfo"   -> [length |-> 1, parameters |-> <<MissingSlot>>]
      [] cls = "NoType"   -> [length |-> 1, parameters |-> <<Slot(UndefinedKey, NoTag)>>]
      [] cls = "Outer"    -> [length |-> 2,
                              parameters |-> <<Slot(RawKey("function", "Zul"), NoTag),
                                               Slot(RawKey("function", "NoType"), NoTag)>>]
      [] cls = "Ping"     -> [length |-> 1,
                              parameters |-> <<Slot(RawKey("function", "Pong"), NoTag)>>]
      [] cls = "Pong"     -> [length |-> 1,
                              parameters |-> <<Slot(RawKey("function", "Ping"), NoTag)>>]
      [] OTHER        -> [length |-> 0, parameters |-> << >>]

\* injectable(lifetime, tag), singleton(tag), scoped(tag): the lifetime the
\* decorator of the class stored in classInfo.lifetime, "" for undefined
ClassLifetime(cls) == IF cls = "Solo" THEN "single" ELSE ""

\* the parameter names in the source text of the class constructor
ParameterNames(cls) ==
    CASE cls = "Foo"  -> <<"bar">>
      [] cls = "Zul"  -> <<"magic">>
      [] cls = "Deep" -> <<"bar", "magic">>
      [] cls \in {"FooPrime", "NoInfo", "NoType"} -> <<"bar">>
      [] cls = "Outer" -> <<"zul", "prime">>
      [] cls = "Ping" -> <<"pong">>
      [] cls = "Pong" -> <<"ping">>
      [] OTHER -> << >>

\* getParamterName: throws for a function without parameters, else the
\* index-th name of the parameter list (a TypeError when there is none)
getParamterName(cls, index) ==
    IF getClassResolveInfo(cls).length = 0 THEN "<Error>"
    ELSE IF index + 1 \in 1 .. Len(ParameterNames(cls))
         THEN ParameterNames(cls)[index + 1]
         ELSE "<TypeError>"

\* isConstructor: a function whose prototype.constructor is itself, i.e. a class
isConstructor(target) == target.shape = "function" /\ target.name \in ClassNames

(***************************************************************************)
(* Values.  Objects carry the identity the allocation gave them; numbers   *)
(* compare by value.  The field by of an object is an observation: the id  *)
(* of the registration whose provider allocated it, 0 when the object was  *)
(* built by the class fallback of resolveInner.                            *)
(***************************************************************************)
Undefined == [t |-> "undefined", id |-> 0, cls |-> "", args |-> << >>, by |-> 0]

Num(n) == [t |-> "number", id |-> n, cls |-> "", args |-> << >>, by |-> 0]

Obj(id, cls, args, by) == [t |-> "object", id |-> id, cls |-> cls, args |-> args, by |-> by]

\* a variant of the cache test that takes every value but undefined as present
TruthyDefined(v) == v.t # "undefined"

\* if(value): undefined and 0 are falsy, every object is truthy
Truthy(v) == v.t = "object" \/ (v.t = "number" /\ v.id # 0)

(***************************************************************************)
(* Providers: a constant value, a callback allocating a new object, a      *)
(* callback resolving one dependency through its context and storing it in *)
(* a new object, and the class provider.  The guarded provider is the      *)
(* callback                                                                *)
(*   ctx => { if(!busy) { busy = true;                                     *)
(*                        try { ctx.resolve(ctx.key, ctx.tag) }            *)
(*                        finally { busy = false } }                       *)
(*            return {} }                                                  *)
(* which resolves its own key once before it produces its value; the falsy *)
(* provider is the callback () => { made.push({}); return 0 }, which       *)
(* allocates an object it keeps to itself and returns 0.                   *)
(***************************************************************************)
ValueProvider(n) == [kind |-> "value", val |-> n, key |-> InvalidKey, tag |-> NoTag]

NewProvider == [kind |-> "new", val |-> 0, key |-> InvalidKey, tag |-> NoTag]

DepProvider(key, tag) == [kind |-> "dep", val |-> 0, key |-> key, tag |-> tag]

FalsyProvider == [kind |-> "falsy", val |-> 0, key |-> InvalidKey, tag |-> NoTag]

GuardedProvider == [kind |-> "guarded", val |-> 0, key |-> InvalidKey, tag |-> NoTag]

ClassProvider(cls) == [kind |-> "class", val |-> 0, key |-> RawKey("function", cls), tag |-> NoTag]

\* the callback () => undefined
VoidProvider == [kind |-> "void", val |-> 0, key |-> InvalidKey, tag |-> NoTag]

Lifetimes == {"transient", "scope", "single"}

VARIABLES
    parent,          \* parent[s]: the parent scope of s, 0 for the root
    root,            \* root[s]: the root scope of s
    registry,        \* registry[s]: Registry.items of scope s
    scope,           \* scope[s]: the private cache Map<LookupKey, Map<string, any>> of s
    registrationId,  \* the module-level registration id counter
    objectCount,     \* objects allocated so far (gives objects their identity)
    last,            \* observation: the most recent call and its outcome
    hist,            \* observation: every resolve call that returned an object
    stack,           \* the resolve calls in progress, outermost first (used by
                     \* the specification that runs a call step by step)
    madeKeys         \* the keys the program has built so far, each with the
                     \* factory call that built it

vars == <<parent, root, registry, scope, registrationId, objectCount, last, hist, stack, madeKeys>>

Scopes == 1 .. Len(parent)

(***************************************************************************)
(* Registry (container.ts, class Registry).  items is a function from the  *)
(* lookup keys present in the Map to their lists of registrations.         *)
(***************************************************************************)
NoReg == [id |-> 0, key |-> InvalidKey, lifetime |-> "", tag |-> NoTag,
          provider |-> ValueProvider(0)]

\* a variant of Registry.set that starts the key's list afresh
RegistrySetReplace(items, key, registration) ==
    IF key \in DOMAIN items
    THEN [items EXCEPT ![key] = <<registration>>]
    ELSE items @@ (key :> <<registration>>)

\* Registry.set: append to the key's list, creating the list when missing
RegistrySet(items, key, registration) ==
    IF key \in DOMAIN items
    THEN [items EXCEPT ![key] = Append(@, registration)]
    ELSE items @@ (key :> <<registration>>)

\* a variant of the tag scan that runs from the front of the list
TagScanFirst(list, tag) ==
    LET matches == {i \in 1 .. Len(list) : list[i].tag = tag}
    IN IF matches = {} THEN 0
       ELSE CHOOSE i \in matches : \A j \in matches : i <= j

\* a variant of the tag scan that stops at the last entry whatever its tag
TagScanAny(list, tag) == Len(list)

\* the index the tag scan of Registry.get stops at: the last entry whose
\* tag equals the given tag, 0 when none does (index === -1)
TagScan(list, tag) ==
    LET matches == {i \in 1 .. Len(list) : list[i].tag = tag}
    IN IF matches = {} THEN 0
       ELSE CHOOSE i \in matches : \A j \in matches : j <= i

\* a variant of Registry.get whose untagged lookup returns the first element
RegistryGetFirst(items, key, tag) ==
    IF key \notin DOMAIN items THEN NoReg
    ELSE LET list == items[key]
         IN IF TagTruthy(tag)
            THEN IF TagScan(list, tag) = 0 THEN NoReg ELSE list[TagScan(list, tag)]
            ELSE list[1]

\* a variant of Registry.get whose untagged lookup passes over tagged entries
RegistryGetUntagged(items, key, tag) ==
    IF key \notin DOMAIN items THEN NoReg
    ELSE LET list == items[key]
             at == IF TagTruthy(tag) THEN TagScan(list, tag) ELSE TagScan(list, NoTag)
         IN IF at = 0 THEN NoReg ELSE list[at]

\* Registry.get; NoReg stands for undefined
RegistryGet(items, key, tag) ==
    IF key \notin DOMAIN items THEN NoReg
    ELSE LET list == items[key]
         IN IF TagTruthy(tag)
            THEN IF TagScan(list, tag) = 0 THEN NoReg ELSE list[TagScan(list, tag)]
            ELSE list[Len(list)]

\* a variant of Registry.has that forgets the tag
RegistryHasAnyTag(items, key, tag) == key \in DOMAIN items

\* Registry.has
RegistryHas(items, key, tag) ==
    IF TagTruthy(tag)
    THEN RegistryGet(items, key, tag) # NoReg
    ELSE key \in DOMAIN items

(***************************************************************************)
(* The scope cache of one container.                                       *)
(***************************************************************************)
\* TinyContainer.getScopeValue on the cache map of one scope
getScopeValue(cache, key, tag) ==
    IF key \notin DOMAIN cache THEN Undefined
    ELSE IF ValueKey(tag) \notin DOMAIN cache[key] THEN Undefined
         ELSE cache[key][ValueKey(tag)]

\* a variant of setScopeValue that skips the write of a falsy value
setScopeValueSkipFalsy(cache, key, value, tag) ==
    IF ~Truthy(value) THEN cache
    ELSE LET values == IF key \in DOMAIN cache THEN cache[key] ELSE << >>
             updated == [k \in DOMAIN values \cup {ValueKey(tag)} |->
                            IF k = ValueKey(tag) THEN value ELSE values[k]]
         IN [k \in DOMAIN cache \cup {key} |-> IF k = key THEN updated ELSE cache[k]]

\* TinyContainer.setScopeValue on the cache map of one scope
setScopeValue(cache, key, value, tag) ==
    LET values == IF key \in DOMAIN cache THEN cache[key] ELSE << >>
        updated == [k \in DOMAIN values \cup {ValueKey(tag)} |->
                       IF k = ValueKey(tag) THEN value ELSE values[k]]
    IN [k \in DOMAIN cache \cup {key} |-> IF k = key THEN updated ELSE cache[k]]

(***************************************************************************)
(* Errors.  A thrown error is the sequence of its cause chain, outermost   *)
(* first: err[1] is the error thrown, err[i+1] the cause of err[i].        *)
(***************************************************************************)
Frame(kind, msg, key, tag, cls, index) ==
    [kind |-> kind, msg |-> msg, key |-> key, tag |-> tag, cls |-> cls, index |-> index,
     name |-> ""]

\* the ResolveError of the catch block of ClassValueProvider.resolve, which
\* carries class, key, tag, parameter_index and parameter_name
ParameterError(ctx, cls, index) ==
    [Frame("ResolveError", "failed to inject parameter", ctx.key, ctx.tag, cls, index)
        EXCEPT !.name = getParamterName(cls, index)]

Return(st, v) == [st |-> st, thrown |-> FALSE, val |-> v, err |-> << >>]

Throw(st, err) == [st |-> st, thrown |-> TRUE, val |-> Undefined, err |-> err]

\* new cls(...args): the allocation gives the object its identity
New(st, cls, args, by) ==
    Return([st EXCEPT !.objectCount = @ + 1], Obj(st.objectCount + 1, cls, args, by))

\* one entry of the call log: a resolveInner call of scope s for (key, tag),
\* the registration it selected (reg, found in scope at; 0 when none), whether
\* the cache answered (hit), whether the provider was executed (ran)
LogEntry(depth, s, key, tag, reg, at, hit, ran, r) ==
    [depth |-> depth, s |-> s, key |-> key, tag |-> tag, reg |-> reg, at |-> at,
     hit |-> hit, ran |-> ran, thrown |-> r.thrown, val |-> r.val]

Logged(r, entry) == [r EXCEPT !.st.log = Append(@, entry)]

(***************************************************************************)
(* Resolution.  st is the mutable state a call reads and writes:           *)
(* st.scope (every scope's cache), st.objectCount and st.log.  The result  *)
(* st.busy is the flag of the guarded provider.  The result                *)
(* of a call is [st, thrown, val, err].  fuel is the call depth left; a    *)
(* call that would nest deeper ends as the engine's stack overflow does.   *)
(***************************************************************************)
RECURSIVE Resolve(_, _, _, _, _)
RECURSIVE ResolveInner(_, _, _, _)
RECURSIVE ProviderResolve(_, _, _, _)
RECURSIVE ClassResolve(_, _, _, _, _)
RECURSIVE ResolveParameters(_, _, _, _, _, _, _)

\* a variant of the parameter loop that rethrows a failure as it is
ResolveParametersUnwrapped(cls, by, index, values, ctx, st, fuel) ==
    LET classInfo == getClassResolveInfo(cls)
        parameterCount == Len(classInfo.parameters)
    IN IF index >= parameterCount
       THEN New(st, cls, values, by)
       ELSE LET resolveParameter == classInfo.parameters[index + 1]
            IN IF ~resolveParameter.has
               THEN Throw(st, <<Frame("InvalidParameterError", "cannot find parameter",
                                      UndefinedKey, NoTag, cls, index)>>)
               ELSE IF resolveParameter.key = UndefinedKey
               THEN Throw(st, <<Frame("InvalidParameterError", "invalid parameter key",
                                      UndefinedKey, NoTag, cls, index)>>)
               ELSE LET r == Resolve(ctx.resolve, resolveParameter.key,
                                     resolveParameter.tag, st, fuel - 1)
                    IN IF r.thrown
                       THEN r
                       ELSE ResolveParameters(cls, by, index + 1,
                                              Append(values, r.val), ctx, r.st, fuel)

\* a variant of the parameter loop that collects the values in reverse
ResolveParametersReversed(cls, by, index, values, ctx, st, fuel) ==
    LET classInfo == getClassResolveInfo(cls)
        parameterCount == Len(classInfo.parameters)
    IN IF index >= parameterCount
       THEN New(st, cls, values, by)
       ELSE LET resolveParameter == classInfo.parameters[index + 1]
                r == Resolve(ctx.resolve, resolveParameter.key,
                             resolveParameter.tag, st, fuel - 1)
            IN IF r.thrown
               THEN Throw(r.st, <<ParameterError(ctx, cls, index)>> \o r.err)
               ELSE ResolveParameters(cls, by, index + 1,
                                      <<r.val>> \o values, ctx, r.st, fuel)

\* a variant of the parameter loop that puts undefined in the place of a
\* slot that failed and goes on to the next slot
ResolveParametersDefaulting(cls, by, index, values, ctx, st, fuel) ==
    LET classInfo == getClassResolveInfo(cls)
        parameterCount == Len(classInfo.parameters)
    IN IF index >= parameterCount
       THEN New(st, cls, values, by)
       ELSE LET resolveParameter == classInfo.parameters[index + 1]
                Continue(r) ==
                    ResolveParameters(cls, by, index + 1,
                                      Append(values, IF r.thrown THEN Undefined ELSE r.val),
                                      ctx, r.st, fuel)
            IN IF ~resolveParameter.has \/ resolveParameter.key = UndefinedKey
               THEN Continue(Return(st, Undefined))
               ELSE Continue(Resolve(ctx.resolve, resolveParameter.key,
                                     resolveParameter.tag, st, fuel - 1))

\* ClassValueProvider.resolve, the loop over parameterIndex (from index on,
\* with the values pushed so far) and the final new this.class(...values)
ResolveParameters(cls, by, index, values, ctx, st, fuel) ==
    LET classInfo == getClassResolveInfo(cls)
        parameterCount == Len(classInfo.parameters)
    IN IF index >= parameterCount
       THEN New(st, cls, values, by)
       ELSE LET resolveParameter == classInfo.parameters[index + 1]
                wrapper == ParameterError(ctx, cls, index)
            IN IF ~resolveParameter.has
               THEN Throw(st, <<wrapper,
                                Frame("InvalidParameterError", "cannot find parameter",
                                      UndefinedKey, NoTag, cls, index)>>)
               ELSE IF resolveParameter.key = UndefinedKey
               THEN Throw(st, <<wrapper,
                                [Frame("InvalidParameterError", "invalid parameter key",
                                       UndefinedKey, NoTag, cls, index)
                                    EXCEPT !.name = getParamterName(cls, index)]>>)
               ELSE LET r == Resolve(ctx.resolve, resolveParameter.key,
                                     resolveParameter.tag, st, fuel - 1)
                    IN IF r.thrown
                       THEN Throw(r.st, <<wrapper>> \o r.err)
                       ELSE ResolveParameters(cls, by, index + 1,
                                              Append(values, r.val), ctx, r.st, fuel)

\* a variant of the class provider without the test for missing metadata
ClassResolveUnchecked(cls, by, ctx, st, fuel) ==
    IF getClassResolveInfo(cls).length = 0
    THEN New(st, cls, << >>, by)
    ELSE ResolveParameters(cls, by, 0, << >>, ctx, st, fuel)

\* ClassValueProvider.resolve
ClassResolve(cls, by, ctx, st, fuel) ==
    LET classInfo == getClassResolveInfo(cls)
    IN IF classInfo.length = 0
       THEN New(st, cls, << >>, by)
       ELSE IF Len(classInfo.parameters) = 0
       THEN Throw(st, <<Frame("ResolveError", "no constructor metadata found",
                              ctx.key, ctx.tag, cls, -1)>>)
       ELSE ResolveParameters(cls, by, 0, << >>, ctx, st, fuel)

\* registration.provider.resolve(context) for the provider kinds of the model
ProviderResolve(registration, ctx, st, fuel) ==
    LET provider == registration.provider
    IN CASE provider.kind = "value" -> Return(st, Num(provider.val))
         [] provider.kind = "new"   -> New(st, "Object", << >>, registration.id)
         [] provider.kind = "dep"   ->
               LET r == Resolve(ctx.resolve, provider.key, provider.tag, st, fuel - 1)
               IN IF r.thrown THEN r
                  ELSE New(r.st, "Holder", <<r.val>>, registration.id)
         [] provider.kind = "class" ->
               ClassResolve(provider.key.name, registration.id, ctx, st, fuel)
         [] provider.kind = "void"  -> Return(st, Undefined)
         [] provider.kind = "falsy" ->
               Return([st EXCEPT !.objectCount = @ + 1], Num(0))
         [] provider.kind = "guarded" ->
               IF st.busy
               THEN New(st, "Object", << >>, registration.id)
               ELSE LET r == Resolve(ctx.resolve, ctx.key, ctx.tag,
                                     [st EXCEPT !.busy = TRUE], fuel - 1)
                    IN IF r.thrown
                       THEN [r EXCEPT !.st.busy = FALSE]
                       ELSE New([r.st EXCEPT !.busy = FALSE], "Object", << >>,
                                registration.id)

\* a variant of the scope chain walk that, finding nothing on the chain,
\* takes a match from any scope of the tree
FindScopeAnywhere(s, lookup, tag) ==
    LET RECURSIVE Walk(_)
        Walk(c) == IF c = 0 THEN 0
                   ELSE IF RegistryGet(registry[c], lookup, tag) # NoReg THEN c
                   ELSE Walk(parent[c])
        others == {c \in 1 .. Len(parent) : RegistryGet(registry[c], lookup, tag) # NoReg}
    IN IF Walk(s) # 0 \/ others = {} THEN Walk(s)
       ELSE CHOOSE c \in others : TRUE

\* a variant of the scope chain walk in which the match nearest to the root
\* wins
FindScopeFarthest(s, lookup, tag) ==
    LET RECURSIVE Walk(_)
        Walk(c) == IF c = 0 THEN 0
                   ELSE IF Walk(parent[c]) # 0 THEN Walk(parent[c])
                   ELSE IF RegistryGet(registry[c], lookup, tag) # NoReg THEN c
                   ELSE 0
    IN Walk(s)

\* a variant of the scope chain walk that looks at the scope itself only
FindScopeLocal(s, lookup, tag) ==
    IF RegistryGet(registry[s], lookup, tag) # NoReg THEN s ELSE 0

\* the scope chain walk of resolveInner: the first scope from s towards the
\* root whose registry has a match, 0 when the chain is exhausted
FindScope(s, lookup, tag) ==
    LET RECURSIVE Walk(_)
        Walk(c) == IF c = 0 THEN 0
                   ELSE IF RegistryGet(registry[c], lookup, tag) # NoReg THEN c
                   ELSE Walk(parent[c])
    IN Walk(s)

\* a variant of the fallback test that forgets the tag
IsUnregisteredClassAnyTag(registration, tag, lookup) ==
    registration = NoReg /\ isConstructor(lookup)

\* a variant of the fallback test that forgets the constructor test
IsUnregisteredClassAnyKey(registration, tag, lookup) ==
    registration = NoReg /\ tag = NoTag

\* resolveInner: const isUnregisteredClass
IsUnregisteredClass(registration, tag, lookup) ==
    /\ registration = NoReg
    /\ tag = NoTag
    /\ isConstructor(lookup)

\* variants of the cache choice: always the root's, always the scope's own
CacheOwnerRoot(s, lifetime) == root[s]

CacheOwnerSelf(s, lifetime) == s

\* resolveInner, switch(registration.lifetime): the scope whose cache the
\* lifetime consults, this.root for 'single' and this for 'scope'
CacheOwner(s, lifetime) == IF lifetime = "single" THEN root[s] ELSE s

\* a variant of the lifetime switch in which 'transient' is cached like 'scope'
CachedLifetimesAll == {"single", "scope", "transient"}

\* resolveInner, switch(registration.lifetime): the cases that consult a cache
CachedLifetimes == {"single", "scope"}

\* a variant of resolveInner whose class fallback keeps the instance it built
\* in the cache of the scope and answers from it the next time
ResolveInnerKeeping(s, ctx, st, fuel) ==
    LET key == ctx.key
        tag == ctx.tag
        lookup == getLookupKey(key)
        depth == MaxDepth - fuel
    IN IF lookup = InvalidKey
       THEN Logged(Throw(st, <<KeyFailure(key, tag)>>),
                   LogEntry(depth, s, lookup, tag, 0, 0, FALSE, FALSE,
                            Throw(st, << >>)))
       ELSE
       LET found == FindScope(s, lookup, tag)
           registration == IF found = 0 THEN NoReg
                           ELSE RegistryGet(registry[found], lookup, tag)
           isUnregisteredClass == IsUnregisteredClass(registration, tag, lookup)
           Entry(hit, ran, r) ==
               Logged(r, LogEntry(depth, s, lookup, tag, registration.id, found,
                                  hit, ran, r))
           owner == CacheOwner(s, registration.lifetime)
           cached == getScopeValue(st.scope[owner], lookup, tag)
           Executed(executed, store) ==
               IF executed.thrown \/ ~store
               THEN Entry(FALSE, TRUE, executed)
               ELSE Entry(FALSE, TRUE,
                          [executed EXCEPT !.st.scope[owner] =
                              setScopeValue(@, lookup, executed.val, tag)])
           Kept(built) ==
               IF built.thrown THEN Entry(FALSE, FALSE, built)
               ELSE Entry(FALSE, FALSE,
                          [built EXCEPT !.st.scope[s] =
                              setScopeValue(@, lookup, built.val, tag)])
       IN IF isUnregisteredClass
          THEN IF Truthy(getScopeValue(st.scope[s], lookup, tag))
               THEN Entry(FALSE, FALSE, Return(st, getScopeValue(st.scope[s], lookup, tag)))
               ELSE Kept(ClassResolve(lookup.name, 0, ctx, st, fuel))
          ELSE IF registration = NoReg \/ found = 0
          THEN Entry(FALSE, FALSE, Return(st, Undefined))
          ELSE IF registration.lifetime \in CachedLifetimes /\ Truthy(cached)
          THEN Entry(TRUE, FALSE, Return(st, cached))
          ELSE IF registration.lifetime \in CachedLifetimes \cup {"transient"}
          THEN Executed(ProviderResolve(registration, ctx, st, fuel),
                        registration.lifetime \in CachedLifetimes)
          ELSE Entry(FALSE, FALSE, Return(st, Undefined))

\* a variant of resolveInner that, when the provider of a cached lifetime
\* throws, still writes an entry (holding undefined) for (lookup, tag)
ResolveInnerStoring(s, ctx, st, fuel) ==
    LET key == ctx.key
        tag == ctx.tag
        lookup == getLookupKey(key)
        depth == MaxDepth - fuel
    IN IF lookup = InvalidKey
       THEN Logged(Throw(st, <<KeyFailure(key, tag)>>),
                   LogEntry(depth, s, lookup, tag, 0, 0, FALSE, FALSE,
                            Throw(st, << >>)))
       ELSE
       LET found == FindScope(s, lookup, tag)
           registration == IF found = 0 THEN NoReg
                           ELSE RegistryGet(registry[found], lookup, tag)
           isUnregisteredClass == IsUnregisteredClass(registration, tag, lookup)
           Entry(hit, ran, r) ==
               Logged(r, LogEntry(depth, s, lookup, tag, registration.id, found,
                                  hit, ran, r))
           owner == CacheOwner(s, registration.lifetime)
           cached == getScopeValue(st.scope[owner], lookup, tag)
           Executed(executed, store) ==
               IF ~store
               THEN Entry(FALSE, TRUE, executed)
               ELSE Entry(FALSE, TRUE,
                          [executed EXCEPT !.st.scope[owner] =
                              setScopeValue(@, lookup, executed.val, tag)])
       IN IF isUnregisteredClass
          THEN Entry(FALSE, FALSE, ClassResolve(lookup.name, 0, ctx, st, fuel))
          ELSE IF registration = NoReg \/ found = 0
          THEN Entry(FALSE, FALSE, Return(st, Undefined))
          ELSE IF registration.lifetime \in CachedLifetimes /\ Truthy(cached)
          THEN Entry(TRUE, FALSE, Return(st, cached))
          ELSE IF registration.lifetime \in CachedLifetimes \cup {"transient"}
          THEN Executed(ProviderResolve(registration, ctx, st, fuel),
                        registration.lifetime \in CachedLifetimes)
          ELSE Entry(FALSE, FALSE, Return(st, Undefined))

\* TinyContainer.resolveInner of scope s (this), ctx = {key, tag, resolve}
ResolveInner(s, ctx, st, fuel) ==
    LET key == ctx.key
        tag == ctx.tag
        lookup == getLookupKey(key)
        depth == MaxDepth - fuel
    IN IF lookup = InvalidKey
       THEN Logged(Throw(st, <<KeyFailure(key, tag)>>),
                   LogEntry(depth, s, lookup, tag, 0, 0, FALSE, FALSE,
                            Throw(st, << >>)))
       ELSE
       LET found == FindScope(s, lookup, tag)
           registration == IF found = 0 THEN NoReg
                           ELSE RegistryGet(registry[found], lookup, tag)
           isUnregisteredClass == IsUnregisteredClass(registration, tag, lookup)
           Entry(hit, ran, r) ==
               Logged(r, LogEntry(depth, s, lookup, tag, registration.id, found,
                                  hit, ran, r))
           \* the cache the lifetime consults: the root's for 'single', this
           \* scope's own for 'scope'
           owner == CacheOwner(s, registration.lifetime)
           cached == getScopeValue(st.scope[owner], lookup, tag)
           \* value = registration.provider.resolve(context) and, in the cached
           \* cases, setScopeValue(lookup, value, tag) when it did not throw
           Executed(executed, store) ==
               IF executed.thrown \/ ~store
               THEN Entry(FALSE, TRUE, executed)
               ELSE Entry(FALSE, TRUE,
                          [executed EXCEPT !.st.scope[owner] =
                              setScopeValue(@, lookup, executed.val, tag)])
       IN IF isUnregisteredClass
          THEN Entry(FALSE, FALSE, ClassResolve(lookup.name, 0, ctx, st, fuel))
          ELSE IF registration = NoReg \/ found = 0
          THEN Entry(FALSE, FALSE, Return(st, Undefined))
          ELSE IF registration.lifetime \in CachedLifetimes /\ Truthy(cached)
          THEN Entry(TRUE, FALSE, Return(st, cached))
          ELSE IF registration.lifetime \in CachedLifetimes \cup {"transient"}
          THEN Executed(ProviderResolve(registration, ctx, st, fuel),
                        registration.lifetime \in CachedLifetimes)
          ELSE Entry(FALSE, FALSE, Return(st, Undefined))

\* a variant of resolve whose context re-enters resolution at the root
ResolveFromRoot(s, key, tag, st, fuel) ==
    IF fuel <= 0
    THEN Throw(st, <<Frame("RangeError", "maximum call stack size exceeded",
                           key, tag, "", -1)>>)
    ELSE LET context == [key |-> key, tag |-> tag, resolve |-> root[s]]
             r == ResolveInner(s, context, st, fuel)
         IN IF r.thrown THEN r
            ELSE IF r.val = Undefined
            THEN Throw(r.st, <<Frame("ResolveError", "no registration found",
                                     key, tag, "", -1)>>)
            ELSE r

\* a variant of resolve that hands back undefined instead of throwing
ResolveNoThrow(s, key, tag, st, fuel) ==
    IF fuel <= 0
    THEN Throw(st, <<Frame("RangeError", "maximum call stack size exceeded",
                           key, tag, "", -1)>>)
    ELSE ResolveInner(s, [key |-> key, tag |-> tag, resolve |-> s], st, fuel)

\* TinyContainer.resolve of scope s
Resolve(s, key, tag, st, fuel) ==
    IF fuel <= 0
    THEN Throw(st, <<Frame("RangeError", "maximum call stack size exceeded",
                           key, tag, "", -1)>>)
    ELSE LET context == [key |-> key, tag |-> tag, resolve |-> s]
             \* const value = this.resolveInner(context), then the undefined test
             Checked(r) ==
                 IF r.thrown THEN r
                 ELSE IF r.val = Undefined
                 THEN Throw(r.st, <<Frame("ResolveError", "no registration found",
                                          key, tag, "", -1)>>)
                 ELSE r
         IN Checked(ResolveInner(s, context, st, fuel))

(***************************************************************************)
(* State machine.                                                          *)
(***************************************************************************)
EmptyMap == << >>

NoCall == [op |-> "none", s |-> 0, key |-> InvalidKey, tag |-> NoTag,
           thrown |-> FALSE, val |-> Undefined, err |-> << >>, log |-> << >>]

\* new TinyContainer(): the root scope, with an empty registry and cache
Init ==
    /\ parent = <<0>>
    /\ root = <<1>>
    /\ registry = <<EmptyMap>>
    /\ scope = <<EmptyMap>>
    /\ registrationId = 0
    /\ objectCount = 0
    /\ last = NoCall
    /\ hist = {}
    /\ stack = << >>
    /\ madeKeys = {}

\* a variant of createScope whose new scope is its own root
CreateScopeOwnRoot(p, limit) ==
    /\ Len(parent) < limit
    /\ parent' = Append(parent, p)
    /\ root' = Append(root, Len(parent) + 1)
    /\ registry' = Append(registry, EmptyMap)
    /\ scope' = Append(scope, EmptyMap)
    /\ last' = [NoCall EXCEPT !.op = "createScope", !.s = p]
    /\ UNCHANGED <<registrationId, objectCount, hist, stack, madeKeys>>

\* p.createScope(): new TinyContainer(p); at most limit scopes are created
CreateScope(p, limit) ==
    /\ Len(parent) < limit
    /\ parent' = Append(parent, p)
    /\ root' = Append(root, IF p # 0 THEN root[p] ELSE Len(parent) + 1)
    /\ registry' = Append(registry, EmptyMap)
    /\ scope' = Append(scope, EmptyMap)
    /\ last' = [NoCall EXCEPT !.op = "createScope", !.s = p]
    /\ UNCHANGED <<registrationId, objectCount, hist, stack, madeKeys>>

\* a variant of register that empties the cache of the scope it is called on
RegisterInvalidating(s, key, lifetime, tag, provider, limit) ==
    LET registration == [id |-> registrationId + 1, key |-> key, lifetime |-> lifetime,
                         tag |-> tag, provider |-> provider]
        lookupKey == getLookupKey(key)
    IN /\ registrationId < limit
       /\ registrationId' = registrationId + 1
       /\ registry' = IF lookupKey = InvalidKey THEN registry
                      ELSE [registry EXCEPT ![s] = RegistrySet(@, lookupKey, registration)]
       /\ scope' = [scope EXCEPT ![s] = EmptyMap]
       /\ last' = [NoCall EXCEPT !.op = "register", !.s = s, !.key = key, !.tag = tag,
                                 !.thrown = (lookupKey = InvalidKey),
                                 !.err = IF lookupKey = InvalidKey
                                         THEN <<KeyFailure(key, tag)>> ELSE << >>]
       /\ UNCHANGED <<parent, root, objectCount, hist, stack, madeKeys>>

\* a variant of register that gives the registration the counter's present
\* value and leaves the counter as it is
RegisterStale(s, key, lifetime, tag, provider, limit) ==
    LET registration == [id |-> registrationId, key |-> key, lifetime |-> lifetime,
                         tag |-> tag, provider |-> provider]
        lookupKey == getLookupKey(key)
    IN /\ registrationId < limit
       /\ registrationId' = registrationId
       /\ registry' = IF lookupKey = InvalidKey THEN registry
                      ELSE [registry EXCEPT ![s] = RegistrySet(@, lookupKey, registration)]
       /\ last' = [NoCall EXCEPT !.op = "register", !.s = s, !.key = key, !.tag = tag,
                                 !.thrown = (lookupKey = InvalidKey),
                                 !.err = IF lookupKey = InvalidKey
                                         THEN <<KeyFailure(key, tag)>> ELSE << >>]
       /\ UNCHANGED <<parent, root, scope, objectCount, hist, stack, madeKeys>>

\* s.register(registration): the id is assigned first, then the key is
\* normalised (which throws for an invalid key), then the registry grows;
\* at most limit registrations are made
Register(s, key, lifetime, tag, provider, limit) ==
    LET registration == [id |-> registrationId + 1, key |-> key, lifetime |-> lifetime,
                         tag |-> tag, provider |-> provider]
        lookupKey == getLookupKey(key)
    IN /\ registrationId < limit
       /\ registrationId' = registrationId + 1
       /\ registry' = IF lookupKey = InvalidKey THEN registry
                      ELSE [registry EXCEPT ![s] = RegistrySet(@, lookupKey, registration)]
       /\ last' = [NoCall EXCEPT !.op = "register", !.s = s, !.key = key, !.tag = tag,
                                 !.thrown = (lookupKey = InvalidKey),
                                 !.err = IF lookupKey = InvalidKey
                                         THEN <<KeyFailure(key, tag)>> ELSE << >>]
       /\ UNCHANGED <<parent, root, scope, objectCount, hist, stack, madeKeys>>

\* the calls of a log that returned an object, as observations: scope s
\* resolved (key, tag), selected registration reg (0: none) and returned val
Events(log) ==
    {[s |-> log[i].s, key |-> log[i].key, tag |-> log[i].tag, reg |-> log[i].reg,
      val |-> log[i].val] :
        i \in {j \in 1 .. Len(log) : ~log[j].thrown /\ log[j].val.t = "object"}}

\* a variant of resolve that, when the class fallback built the value, also
\* installs a registration of the class on the scope it was called on
ResolveCallInstalling(s, key, tag, limit) ==
    LET installed == [id |-> 0, key |-> key, lifetime |-> "transient", tag |-> tag,
                      provider |-> ClassProvider(getLookupKey(key).name)]
        Completes(r) ==
            /\ r.st.objectCount <= limit
            /\ scope' = r.st.scope
            /\ objectCount' = r.st.objectCount
            /\ last' = [op |-> "resolve", s |-> s, key |-> key, tag |-> tag,
                        thrown |-> r.thrown, val |-> r.val, err |-> r.err,
                        log |-> r.st.log]
            /\ hist' = hist \cup Events(r.st.log)
            /\ registry' = IF ~r.thrown /\ r.st.log[Len(r.st.log)].reg = 0
                           THEN [registry EXCEPT
                                    ![s] = RegistrySet(@, getLookupKey(key), installed)]
                           ELSE registry
            /\ UNCHANGED <<parent, root, registrationId, stack, madeKeys>>
    IN Completes(Resolve(s, key, tag,
                         [scope |-> scope, objectCount |-> objectCount, log |-> << >>,
                          busy |-> FALSE],
                         MaxDepth))

\* s.resolve(key, tag), called from outside the container; at most limit
\* objects are ever allocated
ResolveCall(s, key, tag, limit) ==
    LET Completes(r) ==
            /\ r.st.objectCount <= limit
            /\ scope' = r.st.scope
            /\ objectCount' = r.st.objectCount
            /\ last' = [op |-> "resolve", s |-> s, key |-> key, tag |-> tag,
                        thrown |-> r.thrown, val |-> r.val, err |-> r.err,
                        log |-> r.st.log]
            /\ hist' = hist \cup Events(r.st.log)
            /\ UNCHANGED <<parent, root, registry, registrationId, stack, madeKeys>>
    IN Completes(Resolve(s, key, tag,
                         [scope |-> scope, objectCount |-> objectCount, log |-> << >>,
                          busy |-> FALSE],
                         MaxDepth))

(***************************************************************************)
(* Observations used by the properties.                                    *)
(***************************************************************************)
\* every registration held by some registry
AllRegs ==
    UNION {UNION {{registry[s][k][i] : i \in 1 .. Len(registry[s][k])} :
                    k \in DOMAIN registry[s]} : s \in Scopes}

\* the registration with the given id
RegById(id) == CHOOSE r \in AllRegs : r.id = id

\* the scope whose registry holds the registration with the given id
ScopeOfReg(id) ==
    CHOOSE s \in Scopes : \E k \in DOMAIN registry[s] :
        \E i \in 1 .. Len(registry[s][k]) : registry[s][k][i].id = id

\* the log entry of the outermost resolveInner call of the last resolve
Top == last.log[Len(last.log)]

\* the last call was a resolve that selected a registration
LastSelected == last.op = "resolve" /\ Len(last.log) > 0 /\ Top.reg # 0

(***************************************************************************)
(* Spec: lifetimes and overriding in a parent and its child.  The string   *)
(* key K is registered untagged with a provider allocating a new object,   *)
(* with any lifetime, in any scope, at any time; K is resolved from any     *)
(* scope.                                                                  *)
(***************************************************************************)
K == RawKey("string", "K")

DoCreateScope == \E p \in Scopes : CreateScope(p, MaxScopes)

DoRegister ==
    \E s \in Scopes, lifetime \in Lifetimes :
        Register(s, K, lifetime, NoTag, NewProvider, MaxRegs)

DoResolve == \E s \in Scopes : ResolveCall(s, K, NoTag, MaxObjs)

Next == DoCreateScope \/ DoRegister \/ DoResolve

Spec == Init /\ [][Next]_vars

(* C1: for a 'scope' registration whose provider allocates a new object on
   each execution, two resolves of its (key, tag) return the identical
   object exactly when they are made from the same scope: same scope, same
   object; a parent and its child, distinct objects (also when the
   registration lives only in the parent). *)
C1_ScopeSharing ==
    \A e1, e2 \in hist :
        ( /\ e1.reg # 0
          /\ e1.reg = e2.reg
          /\ RegById(e1.reg).lifetime = "scope"
          /\ e1.key = e2.key
          /\ ValueKey(e1.tag) = ValueKey(e2.tag) )
        => (e1.s = e2.s <=> e1.val = e2.val)

\* a 'scope' registration living in the root only has been resolved from
\* the root and from the child, and the last resolve was answered by a cache
C1_Witness ==
    /\ LastSelected /\ Top.hit
    /\ \E e1, e2 \in hist :
          /\ e1.reg # 0 /\ e1.reg = e2.reg
          /\ RegById(e1.reg).lifetime = "scope"
          /\ ScopeOfReg(e1.reg) = 1
          /\ 2 \in Scopes /\ K \notin DOMAIN registry[2]
          /\ e1.s = 1 /\ e2.s = 2
          /\ e1.val # e2.val
          /\ Top.reg = e1.reg

\* scope S holds exactly two registrations of K (both untagged in Spec),
\* and the last call is an untagged resolve of K from S
C3_Case(S) ==
    /\ K \in DOMAIN registry[S]
    /\ Len(registry[S][K]) = 2
    /\ last.op = "resolve" /\ last.s = S /\ ~last.thrown
    /\ getLookupKey(last.key) = K /\ ~TagTruthy(last.tag)

(* C3 as stated: once K is registered twice untagged in one scope, every
   later untagged resolve of K from that scope returns a value produced by
   the second provider, never one produced by the first, whatever was
   resolved before the second registration. *)
C3_Original ==
    \A S \in Scopes :
        C3_Case(S) => last.val.by = registry[S][K][2].id

(* C3 amended: such a resolve always selects the second registration and
   never executes the first provider; it returns a value produced by the
   second provider unless the cache its lifetime consults already holds a
   value for (K, untagged), which a 'scope' or 'single' resolve returns
   instead; a 'transient' second registration is never answered by a cache. *)
C3_Override ==
    \A S \in Scopes :
        C3_Case(S) =>
            /\ Top.reg = registry[S][K][2].id
            /\ \A i \in 1 .. Len(last.log) :
                  last.log[i].ran => last.log[i].reg # registry[S][K][1].id
            /\ Top.hit \/ last.val.by = registry[S][K][2].id
            /\ registry[S][K][2].lifetime = "transient" => ~Top.hit

\* the second provider's value is returned although the first registration
\* was resolved from the same scope before
C3_Witness ==
    \E S \in Scopes :
        /\ C3_Case(S)
        /\ last.val.by = registry[S][K][2].id
        /\ \E e \in hist : e.s = S /\ e.reg = registry[S][K][1].id

(* C6: a resolve that selects a 'transient' registration executes the
   provider exactly once and returns that fresh result (an object no earlier
   resolve returned), leaves every scope's cache unchanged and is not
   answered by a cache, whatever the caches hold for that (identity, tag). *)
C6_Transient ==
    [][ ( /\ LastSelected'
          /\ RegById(Top.reg)'.lifetime = "transient" )
        => ( /\ scope' = scope
             /\ ~Top'.hit /\ Top'.ran
             /\ objectCount' = objectCount + 1
             /\ last'.val = Obj(objectCount + 1, "Object", << >>, Top'.reg)
             /\ \A e \in hist : e.val # last'.val ) ]_vars

\* a 'transient' registration was resolved twice from the same scope, the
\* second time while that scope's cache held a value for (K, untagged)
C6_Witness ==
    /\ LastSelected
    /\ RegById(Top.reg).lifetime = "transient"
    /\ Truthy(getScopeValue(scope[last.s], K, NoTag))
    /\ \E e \in hist : e.reg = Top.reg /\ e.s = last.s /\ e.val # last.val

(***************************************************************************)
(* SpecChain: a tree of up to three scopes (root, children, grandchild).   *)
(* K is registered untagged, with any lifetime, on the root or on the      *)
(* first child, and resolved from every scope of the tree.                 *)
(***************************************************************************)
ChainCreateScope == \E p \in Scopes : CreateScope(p, ChainScopes)

ChainRegister ==
    \E s \in Scopes \cap {1, 2}, lifetime \in Lifetimes :
        Register(s, K, lifetime, NoTag, NewProvider, ChainRegs)

ChainResolve == \E s \in Scopes : ResolveCall(s, K, NoTag, ChainObjs)

NextChain == ChainCreateScope \/ ChainRegister \/ ChainResolve

SpecChain == Init /\ [][NextChain]_vars

(* C2: for a 'single' registration on the root whose provider allocates a
   new object on each execution, all resolves of its (key, tag), from the
   root, a child or a grandchild and in any order, return the identical
   object. *)
C2_SingleSharing ==
    \A e1, e2 \in hist :
        ( /\ e1.reg # 0
          /\ e1.reg = e2.reg
          /\ RegById(e1.reg).lifetime = "single"
          /\ ScopeOfReg(e1.reg) = 1
          /\ e1.key = e2.key
          /\ ValueKey(e1.tag) = ValueKey(e2.tag) )
        => e1.val = e2.val

\* the root's 'single' registration has been resolved from the root, from a
\* child and from a grandchild
C2_Witness ==
    /\ Len(parent) = 3 /\ parent[2] = 1 /\ parent[3] = 2
    /\ \E e1, e2, e3 \in hist :
          /\ e1.reg # 0 /\ e1.reg = e2.reg /\ e2.reg = e3.reg
          /\ RegById(e1.reg).lifetime = "single"
          /\ ScopeOfReg(e1.reg) = 1
          /\ e1.s = 1 /\ e2.s = 2 /\ e3.s = 3
          /\ e1.val.t = "object"

\* K is registered on the root and on no other scope
OnlyOnRoot ==
    /\ K \in DOMAIN registry[1]
    /\ \A s \in Scopes \ {1} : K \notin DOMAIN registry[s]

(* C7: a key registered only on the root resolves successfully from every
   descendant scope (child, grandchild): the resolve selects the root's
   registration and returns a value of the root's registration. *)
C7_ParentFallback ==
    ( /\ OnlyOnRoot
      /\ last.op = "resolve" /\ last.s # 1
      /\ getLookupKey(last.key) = K /\ last.tag = NoTag )
    => ( /\ ~last.thrown
         /\ Top.at = 1
         /\ Top.reg = registry[1][K][Len(registry[1][K])].id
         /\ last.val.t = "object"
         /\ \E i \in 1 .. Len(registry[1][K]) : last.val.by = registry[1][K][i].id )

\* the grandchild resolved the key that only the root registers
C7_Witness ==
    /\ OnlyOnRoot
    /\ Len(parent) = 3 /\ parent[3] = 2
    /\ last.op = "resolve" /\ last.s = 3 /\ ~last.thrown
    /\ last.val.t = "object"

(***************************************************************************)
(* SpecTag: tags in one container.  K is registered with tag "a", tag "b"  *)
(* or untagged, with any lifetime, and resolved with tag "a", tag "b" or   *)
(* no tag, in any order.                                                   *)
(***************************************************************************)
TagRegister ==
    \E s \in Scopes, lifetime \in Lifetimes, tag \in {NoTag, "a", "b"} :
        Register(s, K, lifetime, tag, NewProvider, TagRegs)

TagResolve ==
    \E s \in Scopes, tag \in {NoTag, "a", "b"} : ResolveCall(s, K, tag, TagObjs)

NextTag == TagRegister \/ TagResolve

SpecTag == Init /\ [][NextTag]_vars

\* the registrations of K in the tree that carry the given tag
Tagged(tag) == {r \in AllRegs : getLookupKey(r.key) = K /\ r.tag = tag}

\* K is registered in scope S with tag "a" and with tag "b", and these are
\* the registrations of K with these tags in the tree
C4_Case(S) ==
    /\ Cardinality(Tagged("a")) = 1
    /\ Cardinality(Tagged("b")) = 1
    /\ \A r \in Tagged("a") \cup Tagged("b") : ScopeOfReg(r.id) = S

(* C4: when K is registered in a scope with tag "a" (provider Pa) and with
   tag "b" (provider Pb), every resolve of (K, "a") returned a value
   produced by Pa and every resolve of (K, "b") a value produced by Pb,
   for every lifetime and every order of the registrations and resolves
   (untagged registrations and untagged resolves of K included). *)
C4_TagIsolation ==
    \A S \in Scopes :
        C4_Case(S) =>
            \A e \in hist, tag \in {"a", "b"} :
                (e.key = K /\ e.tag = tag) =>
                    \A r \in Tagged(tag) : e.reg = r.id /\ e.val.by = r.id

\* both tags are registered in one scope and each has been resolved
C4_Witness ==
    \E S \in Scopes :
        /\ C4_Case(S)
        /\ \E ea, eb \in hist :
              /\ ea.key = K /\ ea.tag = "a" /\ ea.s = S
              /\ eb.key = K /\ eb.tag = "b" /\ eb.s = S
              /\ ea.val # eb.val

(***************************************************************************)
(* SpecMissing: requests without a matching registration, in a parent and  *)
(* its child.  The symbol Magic is registered untagged as the value 42 or  *)
(* with tag "a" as the value 100, in any scope; Magic and the wrapped      *)
(* string key K are resolved with tag "a", tag "b" or no tag, the class    *)
(* Bar with tag "a".                                                       *)
(***************************************************************************)
MagicRegistrations ==
    { [key |-> MagicKey, lifetime |-> "single", tag |-> NoTag,
       provider |-> ValueProvider(42)],
      [key |-> MagicKey, lifetime |-> "transient", tag |-> "a",
       provider |-> ValueProvider(100)] }

MissCreateScope == \E p \in Scopes : CreateScope(p, MissScopes)

MissRegister ==
    \E s \in Scopes, r \in MagicRegistrations :
        Register(s, r.key, r.lifetime, r.tag, r.provider, MissRegs)

MissRequests ==
    ({MagicKey, stringKey("K")} \X {NoTag, "a", "b"})
        \cup {<<RawKey("function", "Bar"), "a">>}

MissResolve ==
    \E s \in Scopes, q \in MissRequests : ResolveCall(s, q[1], q[2], MissObjs)

NextMissing == MissCreateScope \/ MissRegister \/ MissResolve

SpecMissing == Init /\ [][NextMissing]_vars

(***************************************************************************)
(* SpecWire: classes.  On the root, Magic is registered as in SpecMissing  *)
(* and Bar is registered with the class provider; the classes Foo, Zul, Deep *)
(* and Bar and the string key K are resolved untagged, Foo also with tag   *)
(* "a".                                                                    *)
(***************************************************************************)
WireRegistrations ==
    MagicRegistrations \cup
    { [key |-> RawKey("function", "Bar"), lifetime |-> "scope", tag |-> NoTag,
       provider |-> ClassProvider("Bar")] }

WireRequests ==
    (({RawKey("function", cls) : cls \in {"Bar", "Foo", "Zul", "Deep"}} \cup {K})
        \X {NoTag})
        \cup {<<RawKey("function", "Foo"), "a">>}

WireCreateScope == \E p \in Scopes : CreateScope(p, WireScopes)

WireRegister ==
    \E s \in Scopes \cap {1}, r \in WireRegistrations :
        Register(s, r.key, r.lifetime, r.tag, r.provider, WireRegs)

WireResolve ==
    \E s \in Scopes, q \in WireRequests : ResolveCall(s, q[1], q[2], WireObjs)

NextWire == WireCreateScope \/ WireRegister \/ WireResolve

SpecWire == Init /\ [][NextWire]_vars

\* the scopes on the chain from s to the root
RECURSIVE ChainOf(_)
ChainOf(s) == IF s = 0 THEN {} ELSE {s} \cup ChainOf(parent[s])

\* some scope on the chain from s holds a registration of lookup tagged tag
HasTagged(s, lookup, tag) ==
    \E c \in ChainOf(s) :
        /\ lookup \in DOMAIN registry[c]
        /\ \E i \in 1 .. Len(registry[c][lookup]) : registry[c][lookup][i].tag = tag

\* some scope on the chain from s holds a registration of lookup at all
HasAny(s, lookup) == \E c \in ChainOf(s) : lookup \in DOMAIN registry[c]

\* some scope on the chain from s holds a registration matching (lookup, tag):
\* one carrying the tag, or any registration of lookup for an untagged request
HasMatch(s, lookup, tag) ==
    IF TagTruthy(tag) THEN HasTagged(s, lookup, tag) ELSE HasAny(s, lookup)

\* the error thrown by resolve when resolveInner returns undefined
NotFound(key, tag) == Frame("ResolveError", "no registration found", key, tag, "", -1)

\* a logged call that gave its caller no value
Failed(e) == e.thrown \/ e.val = Undefined

\* the resolve calls made directly by the provider of the outermost call
Nested == SelectSeq(last.log, LAMBDA e : e.depth = 1)

(* C5: a resolve of (K, t) with a non-empty tag t, when no scope on the chain
   from the originating scope to the root holds a registration of K tagged
   t, fails with a ResolveError and builds nothing, whatever untagged or
   differently tagged registrations of K the chain holds and also when K is
   a constructible class. *)
C5_UnknownTag ==
    ( /\ last.op = "resolve"
      /\ TagTruthy(last.tag)
      /\ ~HasTagged(last.s, getLookupKey(last.key), last.tag) )
    => ( /\ last.thrown
         /\ last.err = <<NotFound(last.key, last.tag)>>
         /\ last.val = Undefined
         /\ Len(last.log) = 1 /\ Top.reg = 0 /\ ~Top.ran )

\* an unknown tag was requested for a key the chain holds under another tag
\* and untagged, and an unknown tag was requested for a constructible class
C5_Witness ==
    /\ last.op = "resolve" /\ last.thrown
    /\ last.key = MagicKey /\ last.tag = "b"
    /\ HasTagged(last.s, getLookupKey(MagicKey), "a")
    /\ HasTagged(last.s, getLookupKey(MagicKey), NoTag)
    /\ last.s # 1 /\ getLookupKey(MagicKey) \in DOMAIN registry[1]

(* C8: a resolve of a string or symbol key, when no scope on the chain from
   the originating scope to the root holds a matching registration, raises
   a ResolveError carrying the requested key and tag, and returns no
   value. *)
C8_NotFound ==
    ( /\ last.op = "resolve"
      /\ getLookupKey(last.key).shape \in {"string", "symbol"}
      /\ ~HasMatch(last.s, getLookupKey(last.key), last.tag) )
    => ( /\ last.thrown
         /\ Len(last.err) = 1
         /\ last.err[1].kind = "ResolveError"
         /\ last.err[1].key = last.key
         /\ last.err[1].tag = last.tag
         /\ last.val = Undefined )

\* the wrapped string key K was resolved from a child scope and not found
C8_Witness ==
    /\ last.op = "resolve" /\ last.thrown
    /\ last.key = stringKey("K") /\ last.tag = NoTag /\ last.s # 1
    /\ last.err[1].key = stringKey("K")

\* the last call was a resolve in the case of the class fallback: no
\* registration on the chain, no tag, and a constructible class as identity
FallbackCase ==
    /\ last.op = "resolve"
    /\ ~HasMatch(last.s, getLookupKey(last.key), last.tag)
    /\ last.tag = NoTag
    /\ isConstructor(getLookupKey(last.key))

\* the declared dependency slots of the class the last call asked for
LastParameters == getClassResolveInfo(getLookupKey(last.key).name).parameters

(* C9: the class fallback applies exactly when no registration is found on
   the scope chain, no tag was supplied and the identity is a constructible
   class.  In that case a resolve that returns has built a new instance of
   the class whose every dependency is the value a resolve of the
   originating scope returned (Foo, with nothing registered, holds a new
   Bar); in every other case no value built by the fallback is returned. *)
C9_AutoWire ==
    last.op = "resolve" =>
        IF FallbackCase
        THEN /\ Top.reg = 0 /\ ~Top.hit
             /\ ~last.thrown =>
                   /\ last.val.t = "object"
                   /\ last.val.cls = getLookupKey(last.key).name
                   /\ last.val.by = 0
                   /\ last.val.id = objectCount
                   /\ Len(last.val.args) = Len(LastParameters)
                   /\ \A i \in 1 .. Len(last.val.args) :
                         \E j \in 1 .. Len(last.log) :
                            /\ last.log[j].depth = 1
                            /\ last.log[j].s = last.s
                            /\ last.log[j].key = getLookupKey(LastParameters[i].key)
                            /\ last.log[j].val = last.val.args[i]
             /\ ( /\ getLookupKey(last.key).name = "Foo"
                  /\ ~HasAny(last.s, RawKey("function", "Bar")) )
                => ( /\ ~last.thrown
                     /\ last.val.args = <<Obj(objectCount - 1, "Bar", << >>, 0)>> )
        ELSE ~last.thrown => (Top.reg # 0 /\ ~(last.val.t = "object" /\ last.val.by = 0))

\* Foo was resolved with nothing registered and holds a Bar
C9_Witness ==
    /\ FallbackCase /\ ~last.thrown
    /\ last.key = RawKey("function", "Foo")
    /\ registrationId = 0 /\ last.s # 1
    /\ last.val.cls = "Foo" /\ last.val.args[1].cls = "Bar"

(* C10: when a class with N declared dependency slots is constructed by the
   class fallback, the slots are resolved one at a time in index order,
   slot i with its own declared key and tag, stopping at the first failure;
   the constructor receives the N resolved values in the same positions,
   so a slot whose registration provides a constant receives it. *)
C10_SlotOrder ==
    FallbackCase =>
        /\ Len(Nested) <= Len(LastParameters)
        /\ \A i \in 1 .. Len(Nested) :
              /\ Nested[i].s = last.s
              /\ Nested[i].key = getLookupKey(LastParameters[i].key)
              /\ Nested[i].tag = LastParameters[i].tag
              /\ Failed(Nested[i]) => (i = Len(Nested) /\ last.thrown)
        /\ IF last.thrown
           THEN Len(Nested) > 0 /\ Failed(Nested[Len(Nested)])
           ELSE /\ Len(Nested) = Len(LastParameters)
                /\ last.val.args = [i \in 1 .. Len(Nested) |-> Nested[i].val]
                /\ \A i \in 1 .. Len(Nested) :
                      ( /\ Nested[i].reg # 0
                        /\ RegById(Nested[i].reg).provider.kind = "value" )
                      => last.val.args[i] = Num(RegById(Nested[i].reg).provider.val)

\* Deep was built in a child scope from a Bar in slot 0 and the value
\* tagged "a" in slot 1
C10_Witness ==
    /\ FallbackCase /\ ~last.thrown
    /\ last.key = RawKey("function", "Deep")
    /\ Len(Nested) = 2
    /\ last.val.args[1].cls = "Bar" /\ last.val.args[2] = Num(100)
    /\ last.s # 1

(***************************************************************************)
(* SpecFail: classes that cannot be built, in a parent and its child.      *)
(* Magic is registered untagged as 42, or FooPrime is registered with the  *)
(* class provider; FooPrime, NoInfo, NoType, Outer and Zul are resolved    *)
(* untagged.                                                               *)
(***************************************************************************)
FailRegistrations ==
    { [key |-> MagicKey, lifetime |-> "single", tag |-> NoTag,
       provider |-> ValueProvider(42)],
      [key |-> RawKey("function", "FooPrime"), lifetime |-> "scope", tag |-> NoTag,
       provider |-> ClassProvider("FooPrime")] }

FailClasses == {"FooPrime", "NoInfo", "NoType", "Outer", "Zul"}

FailCreateScope == \E p \in Scopes : CreateScope(p, FailScopes)

FailRegister ==
    \E s \in Scopes, r \in FailRegistrations :
        Register(s, r.key, r.lifetime, r.tag, r.provider, FailRegs)

FailResolve ==
    \E s \in Scopes, cls \in FailClasses :
        ResolveCall(s, RawKey("function", cls), NoTag, FailObjs)

NextFail == FailCreateScope \/ FailRegister \/ FailResolve

SpecFail == Init /\ [][NextFail]_vars

\* the ResolveError of a class provider that finds no parameter metadata
NoMetadata(key, tag, cls) ==
    Frame("ResolveError", "no constructor metadata found", key, tag, cls, -1)

(* C11: building a class whose constructor takes arguments but whose
   parameter metadata has no entries (FooPrime), by the fallback or by a
   registered class provider, raises the ResolveError "no constructor
   metadata found" and allocates nothing: the class is never constructed
   with zero arguments. *)
C11_NoMetadata ==
    [][ ( /\ last'.op = "resolve"
          /\ getLookupKey(last'.key) = RawKey("function", "FooPrime")
          /\ last'.tag = NoTag )
        => ( /\ last'.thrown
             /\ last'.err = <<NoMetadata(last'.key, last'.tag, "FooPrime")>>
             /\ objectCount' = objectCount
             /\ scope' = scope
             /\ \A e \in hist' : e.val.cls # "FooPrime" ) ]_vars

\* FooPrime was resolved through the fallback and through a registration
C11_Witness ==
    /\ last.op = "resolve" /\ last.thrown
    /\ last.key = RawKey("function", "FooPrime")
    /\ last.err[1].msg = "no constructor metadata found"
    /\ Top.reg # 0

\* the class a "failed to inject parameter" frame says the failing slot asks for
SlotOf(frame) == getClassResolveInfo(frame.cls).parameters[frame.index + 1]

\* frame is a wrapper of the catch block for some slot of its class
IsWrapper(frame) ==
    /\ frame.kind = "ResolveError" /\ frame.msg = "failed to inject parameter"
    /\ frame.cls \in ClassNames
    /\ frame.index \in 0 .. Len(getClassResolveInfo(frame.cls).parameters) - 1
    /\ frame.name = ParameterNames(frame.cls)[frame.index + 1]
    /\ frame.key = RawKey("function", frame.cls) /\ frame.tag = NoTag

\* frame is the original error of the slot the wrapper names
IsOrigin(frame, wrapper) ==
    LET slot == SlotOf(wrapper)
    IN \/ /\ slot.has /\ slot.key # UndefinedKey
          /\ frame = NotFound(slot.key, slot.tag)
       \/ /\ ~slot.has
          /\ frame.kind = "InvalidParameterError" /\ frame.msg = "cannot find parameter"
          /\ frame.cls = wrapper.cls /\ frame.index = wrapper.index
       \/ /\ slot.has /\ slot.key = UndefinedKey
          /\ frame.kind = "InvalidParameterError" /\ frame.msg = "invalid parameter key"
          /\ frame.cls = wrapper.cls /\ frame.index = wrapper.index

(* C12: when a slot of a class built by the fallback fails, resolve raises
   a ResolveError naming the class, the parameter name and the index, whose
   cause is the underlying error; with nested classes each failing
   constructor adds exactly one such wrapper, about the slot that holds the
   next class, and the chain ends in the original not-found or
   invalid-parameter error of the innermost slot. *)
C12_CauseChain ==
    ( /\ FallbackCase /\ last.thrown
      /\ Len(LastParameters) > 0 )
    => ( /\ Len(last.err) >= 2
         /\ last.err[1].cls = getLookupKey(last.key).name
         /\ \A j \in 1 .. Len(last.err) - 1 : IsWrapper(last.err[j])
         /\ \A j \in 1 .. Len(last.err) - 2 :
               /\ SlotOf(last.err[j]).has
               /\ getLookupKey(SlotOf(last.err[j]).key)
                     = RawKey("function", last.err[j + 1].cls)
         /\ IsOrigin(last.err[Len(last.err)], last.err[Len(last.err) - 1])
         /\ Len(last.err) - 1
               = Cardinality({d \in 0 .. MaxDepth :
                     \E i \in 1 .. Len(last.log) :
                        /\ last.log[i].depth = d /\ last.log[i].thrown}) )

\* Outer built its Zul and failed at slot 1, whose class NoType has no usable key
C12_Witness ==
    /\ FallbackCase /\ last.thrown
    /\ last.key = RawKey("function", "Outer")
    /\ Len(last.err) = 3
    /\ last.err[1].index = 1 /\ last.err[1].name = "prime"
    /\ last.err[2].cls = "NoType"
    /\ last.err[3].kind = "InvalidParameterError"
    /\ objectCount = 1

(***************************************************************************)
(* SpecDep: a provider that resolves a dependency.  The string key H is    *)
(* registered on the root, with any lifetime, with a provider that asks    *)
(* its context for K and stores the result in a new object; K is           *)
(* registered as 'scope' in any scope with a provider allocating a new     *)
(* object; H and K are resolved from any scope.                            *)
(***************************************************************************)
H == RawKey("string", "H")

DepCreateScope == \E p \in Scopes : CreateScope(p, DepScopes)

\* the callback ctx => ({ dep: ctx.resolve('K') })
HolderProvider == DepProvider(K, NoTag)

DepRegister ==
    \/ \E lifetime \in Lifetimes :
          Register(1, H, lifetime, NoTag, HolderProvider, DepRegs)
    \/ \E s \in Scopes : Register(s, K, "scope", NoTag, NewProvider, DepRegs)

DepResolve == \E s \in Scopes, key \in {H, K} : ResolveCall(s, key, NoTag, DepObjs)

NextDep == DepCreateScope \/ DepRegister \/ DepResolve

SpecDep == Init /\ [][NextDep]_vars

\* the registration an untagged lookup of key that starts at scope s selects:
\* the last one of the nearest scope on the chain holding the key, 0 if none
Visible(s, key) ==
    LET holders == {c \in ChainOf(s) : key \in DOMAIN registry[c]}
        nearest == CHOOSE c \in holders : holders \subseteq ChainOf(c)
    IN IF holders = {} THEN 0 ELSE registry[nearest][key][Len(registry[nearest][key])].id

(* C13: the resolve callback handed to a provider re-enters resolution at
   the scope the outer call started in: when the provider of H, registered
   on the root, runs for a resolve from scope s, its lookup of K is made by
   s, selects the registration of K visible from s (a registration in s
   itself before the root's) and is served by the cache of s. *)
C13_OriginatingScope ==
    ( /\ last.op = "resolve" /\ last.key = H /\ Top.ran )
    => ( /\ Top.at = 1
         /\ Len(Nested) = 1
         /\ Nested[1].s = last.s
         /\ Nested[1].key = K
         /\ Nested[1].reg = Visible(last.s, K)
         /\ Nested[1].reg # 0 =>
               /\ ~last.thrown
               /\ Nested[1].val = getScopeValue(scope[last.s], K, NoTag)
               /\ last.val.args = <<Nested[1].val>>
         /\ Nested[1].reg = 0 => last.thrown )

\* H lives on the root, K only on the child: a resolve of H from the child
\* succeeds and holds the child's K
C13_Witness ==
    /\ last.op = "resolve" /\ last.key = H /\ Top.ran /\ ~last.thrown
    /\ last.s # 1
    /\ K \notin DOMAIN registry[1]
    /\ ScopeOfReg(Nested[1].reg) = last.s
    /\ last.val.args[1].by = Nested[1].reg

(***************************************************************************)
(* SpecGuard: re-entrant resolves of one key.  K is registered in any      *)
(* scope, with any lifetime, with the guarded provider or with a provider  *)
(* allocating a new object; K is resolved from any scope.                  *)
(***************************************************************************)
GuardCreateScope == \E p \in Scopes : CreateScope(p, GuardScopes)

GuardRegister ==
    \E s \in Scopes, lifetime \in Lifetimes, provider \in {GuardedProvider, NewProvider} :
        Register(s, K, lifetime, NoTag, provider, GuardRegs)

GuardResolve == \E s \in Scopes : ResolveCall(s, K, NoTag, GuardObjs)

NextGuard == GuardCreateScope \/ GuardRegister \/ GuardResolve

SpecGuard == Init /\ [][NextGuard]_vars

\* the cache writes of a call, in the order they were made: the logged calls
\* that executed the provider of a 'scope' or 'single' registration and
\* stored its result, each with the scope whose cache was written
Writes(log) ==
    LET stores == SelectSeq(log, LAMBDA e :
                     /\ e.ran /\ ~e.thrown
                     /\ RegById(e.reg).lifetime \in {"scope", "single"})
    IN [i \in 1 .. Len(stores) |->
           [owner |-> IF RegById(stores[i].reg).lifetime = "single"
                      THEN root[stores[i].s] ELSE stores[i].s,
            key |-> stores[i].key, tag |-> ValueKey(stores[i].tag),
            val |-> stores[i].val]]

\* what the cache slot of the i-th write held just before that write
Before(cache, writes, i) ==
    LET earlier == {j \in 1 .. i - 1 :
                       /\ writes[j].owner = writes[i].owner
                       /\ writes[j].key = writes[i].key
                       /\ writes[j].tag = writes[i].tag}
    IN IF earlier # {}
       THEN writes[CHOOSE j \in earlier : \A k \in earlier : k <= j].val
       ELSE getScopeValue(cache[writes[i].owner], writes[i].key, writes[i].tag)

(* C14: in every scope, once the cache holds a value for (identity, tag)
   that the cache lookup treats as present, no later resolve of that
   (identity, tag) served by that cache replaces the entry, resolves
   re-entered from a provider included: no cache write of any resolve call
   finds such a value in the slot it writes. *)
C14_NoOverwrite ==
    [][ last'.op = "resolve" =>
          \A i \in 1 .. Len(Writes(last'.log)) :
              ~Truthy(Before(scope, Writes(last'.log), i)) ]_vars

(* C19: register changes, of the containers' state, nothing but the
   registry of the scope it is called on: every cache, every other registry
   and the scope tree are unchanged.  So a resolve that selects a 'scope'
   or 'single' registration and finds a value in the cache that lifetime
   consults returns that value and runs no provider, also when the
   registration selected was added after the value was cached. *)
C19_RegisterFrame ==
    [][ /\ last'.op = "register" =>
            /\ scope' = scope
            /\ parent' = parent /\ root' = root
            /\ objectCount' = objectCount /\ hist' = hist
            /\ \A s \in Scopes : s # last'.s => registry'[s] = registry[s]
            /\ \A k \in DOMAIN registry[last'.s] :
                  /\ k \in DOMAIN registry'[last'.s]
                  /\ SubSeq(registry'[last'.s][k], 1, Len(registry[last'.s][k]))
                        = registry[last'.s][k]
        /\ ( /\ last'.op = "resolve" /\ Top'.reg # 0
             /\ RegById(Top'.reg).lifetime \in {"scope", "single"}
             /\ Truthy(getScopeValue(
                    scope[IF RegById(Top'.reg).lifetime = "single"
                          THEN root[last'.s] ELSE last'.s], K, NoTag)) )
           => ( /\ ~last'.thrown
                /\ last'.val = getScopeValue(
                       scope[IF RegById(Top'.reg).lifetime = "single"
                             THEN root[last'.s] ELSE last'.s], K, NoTag)
                /\ scope' = scope /\ objectCount' = objectCount ) ]_vars

\* a resolve returned the value cached before the registration it selected
\* was added
C19_Witness ==
    /\ LastSelected /\ ~last.thrown
    /\ Top.hit
    /\ last.val.by < Top.reg
    /\ RegById(last.val.by).lifetime = RegById(Top.reg).lifetime

(***************************************************************************)
(* SpecFalsy: providers returning 0.  K is registered in any scope, with   *)
(* any lifetime, with the falsy provider or with a provider allocating a   *)
(* new object; K is resolved from any scope.                               *)
(***************************************************************************)
FalsyCreateScope == \E p \in Scopes : CreateScope(p, FalsyScopes)

FalsyRegister ==
    \E s \in Scopes, lifetime \in Lifetimes, provider \in {FalsyProvider, NewProvider} :
        Register(s, K, lifetime, NoTag, provider, FalsyRegs)

FalsyResolve == \E s \in Scopes : ResolveCall(s, K, NoTag, FalsyObjs)

NextFalsy == FalsyCreateScope \/ FalsyRegister \/ FalsyResolve

SpecFalsy == Init /\ [][NextFalsy]_vars

\* the scope whose cache the lifetime of the registration selected by the
\* last resolve consults
LastOwner == IF RegById(Top.reg).lifetime = "single" THEN root[last.s] ELSE last.s

\* the cache consulted by the last resolve has an entry for (K, untagged)
LastSlotPresent ==
    /\ K \in DOMAIN scope[LastOwner]
    /\ ValueKey(NoTag) \in DOMAIN scope[LastOwner][K]

\* the last resolve executed the provider of a 'scope' or 'single'
\* registration and the provider returned a falsy value
FalsyProduced ==
    /\ LastSelected /\ ~last.thrown
    /\ RegById(Top.reg).lifetime \in {"scope", "single"}
    /\ Top.ran
    /\ ~Truthy(last.val)

(* C15 as stated: when the provider of a 'scope' or 'single' registration
   produces a falsy value, the cache write is skipped and the cache is left
   without an entry for (identity, tag). *)
C15_Original == FalsyProduced => ~LastSlotPresent

(* C15, amended: when the provider of a 'scope' or 'single' registration
   produces a falsy value, the value is written to the cache like any
   other: the cache the lifetime consults then holds that value for
   (identity, tag). *)
C15_FalsyStored ==
    FalsyProduced =>
        /\ LastSlotPresent
        /\ scope[LastOwner][K][ValueKey(NoTag)] = last.val

\* a 'single' registration resolved from a child produced 0, now in the
\* root's cache
C15_Witness ==
    /\ FalsyProduced
    /\ last.val = Num(0)
    /\ last.s # 1 /\ LastOwner = 1
    /\ scope[1][K][ValueKey(NoTag)] = Num(0)

(* C16: for a 'scope' or 'single' registration whose provider returns a
   falsy value other than undefined, every resolve that selects it, the
   cache holding no object left by another registration, executes the
   provider once more and returns the value it has just produced: n
   resolves execute the provider n times. *)
C16_Recompute ==
    [][ ( /\ LastSelected'
          /\ RegById(Top'.reg).lifetime \in {"scope", "single"}
          /\ RegById(Top'.reg).provider = FalsyProvider
          /\ getScopeValue(
                 scope[IF RegById(Top'.reg).lifetime = "single"
                       THEN root[last'.s] ELSE last'.s], K, NoTag).t # "object" )
        => ( /\ Top'.ran /\ ~Top'.hit
             /\ ~last'.thrown
             /\ last'.val = Num(0)
             /\ objectCount' = objectCount + 1 ) ]_vars

\* the one registration of K, a 'single' with the falsy provider, was
\* resolved twice and its provider ran twice
C16_Witness ==
    /\ FalsyProduced
    /\ registrationId = 1
    /\ RegById(1).lifetime = "single" /\ RegById(1).provider = FalsyProvider
    /\ objectCount = 2

\* the scope reached from s by following the parent reference n times
\* (0: the reference was absent on the way)
RECURSIVE Up(_, _)
Up(s, n) == IF n = 0 \/ s = 0 THEN s ELSE Up(parent[s], n - 1)

(* C17: after any sequence of createScope calls the first scope is its own
   root and has no parent; every other scope has as parent a scope created
   before it and the root of that parent as root; following the parent
   references from any scope reaches its root, which has no parent, and
   never comes back to the scope itself.  A createScope call on P adds one
   scope with parent P and the root of P, and changes no existing parent
   or root reference. *)
C17_ScopeTree ==
    /\ [](/\ parent[1] = 0 /\ root[1] = 1
          /\ Len(root) = Len(parent)
          /\ \A s \in Scopes \ {1} :
                /\ parent[s] \in 1 .. s - 1
                /\ root[s] = root[parent[s]]
          /\ \A s \in Scopes :
                /\ \E n \in 0 .. Len(parent) - 1 : Up(s, n) = root[s]
                /\ parent[root[s]] = 0
                /\ \A n \in 1 .. Len(parent) : Up(s, n) # s)
    /\ [][ /\ \A s \in Scopes : parent'[s] = parent[s] /\ root'[s] = root[s]
           /\ last'.op = "createScope" =>
                 /\ Len(parent') = Len(parent) + 1
                 /\ parent'[Len(parent')] = last'.s
                 /\ root'[Len(parent')] = root[last'.s] ]_vars

\* a grandchild of the root was created
C17_Witness ==
    /\ last.op = "createScope"
    /\ Len(parent) = 3
    /\ parent[3] = 2 /\ parent[2] = 1
    /\ root[3] = 1 /\ last.s = 2

(***************************************************************************)
(* A resolve call run step by step.  stack holds one frame per resolve     *)
(* call in progress; the last frame is the call being executed.  A frame   *)
(* is at the scope walk of resolveInner ("walk", cursor being the scope    *)
(* looked at, 0 after the root), at the fallback test and the lifetime     *)
(* switch ("dispatch"), in the middle of its provider ("slots": about to   *)
(* resolve dependency index, or to build the object when none is left),    *)
(* waiting for a nested call ("wait"), returning ("done") or throwing      *)
(* ("throw").                                                              *)
(***************************************************************************)
NewFrame(s, key, tag) ==
    [s |-> s, key |-> key, tag |-> tag, cursor |-> s, stage |-> "walk", reg |-> NoReg,
     cls |-> "", by |-> 0, wraps |-> FALSE, slots |-> << >>, index |-> 0,
     values |-> << >>, store |-> FALSE, val |-> Undefined, err |-> << >>]

TopFrame == stack[Len(stack)]

SetTop(frame) == [stack EXCEPT ![Len(stack)] = frame]

\* a variant of the step of the scope walk that stays on the same scope
NextCursorStuck(c) == c

\* resolveInner: scope = scope.parent
NextCursor(c) == parent[c]

\* s.resolve(key, tag) is called from outside the container
StepBegin(s, key, tag, limit) ==
    /\ stack = << >>
    /\ objectCount <= limit
    /\ stack' = <<NewFrame(s, key, tag)>>
    /\ last' = [NoCall EXCEPT !.op = "begin", !.s = s, !.key = key, !.tag = tag]
    /\ UNCHANGED <<parent, root, registry, scope, registrationId, objectCount, hist, madeKeys>>

\* resolveInner: getLookupKey(key), then one iteration of while(scope)
StepWalk ==
    /\ stack # << >>
    /\ TopFrame.stage = "walk"
    /\ LET f == TopFrame
           registration == IF f.cursor = 0 THEN NoReg
                           ELSE RegistryGet(registry[f.cursor], getLookupKey(f.key), f.tag)
       IN stack' = SetTop(IF getLookupKey(f.key) = InvalidKey
                          THEN [f EXCEPT !.stage = "throw",
                                         !.err = <<KeyFailure(f.key, f.tag)>>]
                          ELSE IF f.cursor # 0 /\ registration = NoReg
                          THEN [f EXCEPT !.cursor = NextCursor(f.cursor)]
                          ELSE [f EXCEPT !.stage = "dispatch", !.reg = registration])
    /\ UNCHANGED <<parent, root, registry, scope, registrationId, objectCount, last, hist, madeKeys>>

\* the start of ClassValueProvider.resolve in frame f
ClassStart(f, cls, by, store) ==
    LET classInfo == getClassResolveInfo(cls)
    IN IF classInfo.length = 0
       THEN [f EXCEPT !.stage = "slots", !.cls = cls, !.by = by, !.store = store]
       ELSE IF Len(classInfo.parameters) = 0
       THEN [f EXCEPT !.stage = "throw",
                      !.err = <<Frame("ResolveError", "no constructor metadata found",
                                      f.key, f.tag, cls, -1)>>]
       ELSE [f EXCEPT !.stage = "slots", !.cls = cls, !.by = by, !.store = store,
                      !.wraps = TRUE, !.slots = classInfo.parameters]

\* resolveInner after the scope walk: the fallback test, the not-found
\* return, the lifetime switch with its cache read, and the entry into
\* registration.provider.resolve(context)
StepDispatch ==
    /\ stack # << >>
    /\ TopFrame.stage = "dispatch"
    /\ LET f == TopFrame
           lookup == getLookupKey(f.key)
           registration == f.reg
           provider == registration.provider
           cached == getScopeValue(scope[CacheOwner(f.s, registration.lifetime)],
                                   lookup, f.tag)
           store == registration.lifetime \in CachedLifetimes
           started ==
               CASE provider.kind = "value" ->
                       [f EXCEPT !.stage = "done", !.store = store,
                                 !.val = Num(provider.val)]
                 [] provider.kind = "new" ->
                       [f EXCEPT !.stage = "slots", !.store = store, !.cls = "Object",
                                 !.by = registration.id]
                 [] provider.kind = "dep" ->
                       [f EXCEPT !.stage = "slots", !.store = store, !.cls = "Holder",
                                 !.by = registration.id,
                                 !.slots = <<Slot(provider.key, provider.tag)>>]
                 [] provider.kind = "class" ->
                       ClassStart(f, provider.key.name, registration.id, store)
       IN stack' = SetTop(
              IF IsUnregisteredClass(registration, f.tag, lookup)
              THEN ClassStart(f, lookup.name, 0, FALSE)
              ELSE IF registration = NoReg \/ f.cursor = 0
              THEN [f EXCEPT !.stage = "done"]
              ELSE IF store /\ Truthy(cached)
              THEN [f EXCEPT !.stage = "done", !.val = cached]
              ELSE IF store \/ registration.lifetime = "transient"
              THEN started
              ELSE [f EXCEPT !.stage = "done"])
    /\ UNCHANGED <<parent, root, registry, scope, registrationId, objectCount, last, hist, madeKeys>>

\* the provider of the running call: the next context.resolve(...) of its
\* dependencies, or the construction of its object when none is left.  A
\* nested call that would exceed the engine's call stack throws RangeError.
StepSlots ==
    /\ stack # << >>
    /\ TopFrame.stage = "slots"
    /\ LET f == TopFrame
           wrapper == IF f.wraps
                      THEN <<ParameterError([key |-> f.key, tag |-> f.tag], f.cls, f.index)>>
                      ELSE << >>
           resolveParameter == f.slots[f.index + 1]
           Fail(err) == SetTop([f EXCEPT !.stage = "throw", !.err = wrapper \o err])
       IN IF f.index >= Len(f.slots)
          THEN /\ objectCount' = objectCount + 1
               /\ stack' = SetTop([f EXCEPT !.stage = "done",
                                            !.val = Obj(objectCount + 1, f.cls,
                                                        f.values, f.by)])
          ELSE /\ objectCount' = objectCount
               /\ stack' =
                     IF ~resolveParameter.has
                     THEN Fail(<<Frame("InvalidParameterError", "cannot find parameter",
                                       UndefinedKey, NoTag, f.cls, f.index)>>)
                     ELSE IF resolveParameter.key = UndefinedKey
                     THEN Fail(<<[Frame("InvalidParameterError", "invalid parameter key",
                                        UndefinedKey, NoTag, f.cls, f.index)
                                     EXCEPT !.name = getParamterName(f.cls, f.index)]>>)
                     ELSE IF Len(stack) >= MaxDepth
                     THEN Fail(<<Frame("RangeError", "maximum call stack size exceeded",
                                       resolveParameter.key, resolveParameter.tag,
                                       "", -1)>>)
                     ELSE Append(SetTop([f EXCEPT !.stage = "wait"]),
                                 NewFrame(f.s, resolveParameter.key, resolveParameter.tag))
    /\ UNCHANGED <<parent, root, registry, scope, registrationId, last, hist, madeKeys>>

\* the running call returns: resolveInner writes the cache when its provider
\* ran under a cached lifetime, resolve turns undefined into a ResolveError,
\* and the value goes to the caller
StepReturn ==
    /\ stack # << >>
    /\ TopFrame.stage = "done"
    /\ LET f == TopFrame
           lookup == getLookupKey(f.key)
           owner == CacheOwner(f.s, f.reg.lifetime)
           below == SubSeq(stack, 1, Len(stack) - 1)
           caller == stack[Len(stack) - 1]
       IN /\ scope' = IF f.store
                      THEN [scope EXCEPT ![owner] = setScopeValue(@, lookup, f.val, f.tag)]
                      ELSE scope
          /\ IF f.val = Undefined
             THEN /\ stack' = SetTop([f EXCEPT !.stage = "throw", !.store = FALSE,
                                        !.err = <<Frame("ResolveError",
                                                        "no registration found",
                                                        f.key, f.tag, "", -1)>>])
                  /\ UNCHANGED last
             ELSE IF Len(stack) = 1
             THEN /\ stack' = << >>
                  /\ last' = [NoCall EXCEPT !.op = "resolve", !.s = f.s, !.key = f.key,
                                            !.tag = f.tag, !.val = f.val]
             ELSE /\ stack' = [below EXCEPT ![Len(below)] =
                                  [caller EXCEPT !.stage = "slots", !.index = @ + 1,
                                                 !.values = Append(@, f.val)]]
                  /\ UNCHANGED last
    /\ UNCHANGED <<parent, root, registry, registrationId, objectCount, hist, madeKeys>>

\* the running call throws: the error reaches the caller, whose catch block
\* wraps it when the caller is a class provider
StepThrow ==
    /\ stack # << >>
    /\ TopFrame.stage = "throw"
    /\ LET f == TopFrame
           below == SubSeq(stack, 1, Len(stack) - 1)
           caller == stack[Len(stack) - 1]
           wrapper == IF caller.wraps
                      THEN <<ParameterError([key |-> caller.key, tag |-> caller.tag],
                                            caller.cls, caller.index)>>
                      ELSE << >>
       IN IF Len(stack) = 1
          THEN /\ stack' = << >>
               /\ last' = [NoCall EXCEPT !.op = "resolve", !.s = f.s, !.key = f.key,
                                         !.tag = f.tag, !.thrown = TRUE, !.err = f.err]
          ELSE /\ stack' = [below EXCEPT ![Len(below)] =
                               [caller EXCEPT !.stage = "throw",
                                              !.err = wrapper \o f.err]]
               /\ UNCHANGED last
    /\ UNCHANGED <<parent, root, registry, scope, registrationId, objectCount, hist, madeKeys>>

(***************************************************************************)
(* SpecSteps: resolve calls run step by step over registrations that can   *)
(* form a cycle (K depends on K, or on H and H on K) and classes that form one (Ping   *)
(* takes a Pong, Pong a Ping).  The container is single-threaded and       *)
(* synchronous: a call in progress always takes its next step, so the      *)
(* steps are weakly fair.  register and createScope happen between calls.  *)
(***************************************************************************)
StepCreateScope ==
    /\ stack = << >>
    /\ \E p \in Scopes : CreateScope(p, StepScopes)

StepRegister ==
    /\ stack = << >>
    /\ \/ \E lifetime \in Lifetimes, key \in {K, H} :
             Register(1, K, lifetime, NoTag, DepProvider(key, NoTag), StepRegs)
       \/ \E s \in Scopes, provider \in {HolderProvider, NewProvider} :
             Register(s, H, "transient", NoTag, provider, StepRegs)

StepRequests == {K, H, RawKey("function", "Ping"), RawKey("function", "Foo")}

StepResolve == \E s \in Scopes, key \in StepRequests : StepBegin(s, key, NoTag, StepObjs)

StepRun == StepWalk \/ StepDispatch \/ StepSlots \/ StepReturn \/ StepThrow

NextSteps == StepCreateScope \/ StepRegister \/ StepResolve \/ StepRun

SpecSteps == Init /\ [][NextSteps]_vars /\ WF_vars(StepRun)

\* the last call completed: it returned a value or it raised an error
Completed ==
    /\ stack = << >>
    /\ last.op = "resolve"
    /\ \/ last.thrown /\ Len(last.err) > 0
       \/ ~last.thrown /\ last.val # Undefined

Symbol(name, n) == name \o "#" \o ToString(n)

SymbolsMade == Cardinality({m \in madeKeys : m.by = "symbolKey"})

MakeKey(by, arg, key) ==
    /\ Cardinality(madeKeys) < KeyMade
    /\ madeKeys' = madeKeys \cup {[by |-> by, arg |-> arg, key |-> key]}
    /\ last' = [NoCall EXCEPT !.op = by, !.key = key]
    /\ UNCHANGED <<parent, root, registry, scope, registrationId, objectCount, hist, stack>>

MakeStringKey == MakeKey("stringKey", "K", stringKey("K"))

MakeSymbolKey == MakeKey("symbolKey", "Magic", symbolKey(Symbol("Magic", SymbolsMade + 1)))

MakeClassKey == MakeKey("classKey", "FooPrime", classKey("FooPrime"))

\* the keys the program can pass: the wrappers it built, the symbols inside
\* the symbol wrappers, the string 'K' and the constructor FooPrime
KeyForms ==
    {m.key : m \in madeKeys}
        \cup {RawKey("symbol", m.key.name) : m \in {n \in madeKeys : n.by = "symbolKey"}}
        \cup {RawKey("string", "K"), RawKey("function", "FooPrime")}

KeyRegister ==
    \E key \in KeyForms :
        Register(1, key, "transient", NoTag, ValueProvider(registrationId + 1), KeyRegs)

KeyResolve == \E key \in KeyForms : ResolveCall(1, key, NoTag, MaxObjs)

NextKeys == MakeStringKey \/ MakeSymbolKey \/ MakeClassKey \/ KeyRegister \/ KeyResolve

SpecKeys == Init /\ [][NextKeys]_vars

\* the raw value a key stands for: the string, symbol or constructor itself,
\* or the one a wrapper carries in its name, symbol or cls field
Underlying(key) ==
    IF key.shape = "object"
    THEN <<key.type, key.name>>
    ELSE <<IF key.shape = "function" THEN "class" ELSE key.shape, key.name>>

\* the registrations made under a key with the same underlying raw value
Targets(key) == {r \in AllRegs : Underlying(r.key) = Underlying(key)}

\* C20: key normalization compares by the underlying raw value.  Two keys
\* have the same lookup identity exactly when their underlying raw values
\* are the same (wrapped string and raw string, wrapped class and raw
\* constructor, a symbol wrapper and its own symbol); two symbolKey wrappers
\* built by separate calls have different identities although their names
\* agree; normalizing a lookup identity returns it unchanged; and a resolve
\* under one form fails exactly when nothing is registered under any form
\* of the same raw value, and otherwise returns the last such registration's
\* value.
C20_KeyNormalization ==
    /\ \A a \in KeyForms, b \in KeyForms :
          (Underlying(a) = Underlying(b)) <=> (getLookupKey(a) = getLookupKey(b))
    /\ \A m \in madeKeys, n \in madeKeys :
          (m.by = "symbolKey" /\ n.by = "symbolKey" /\ m # n)
              => getLookupKey(m.key) # getLookupKey(n.key)
    /\ \A a \in KeyForms :
          /\ getLookupKey(a) # InvalidKey
          /\ getLookupKey(getLookupKey(a)) = getLookupKey(a)
    /\ last.op = "resolve" =>
          IF Targets(last.key) = {}
          THEN last.thrown
          ELSE /\ ~last.thrown
               /\ \E r \in Targets(last.key) :
                     /\ last.val = Num(r.id)
                     /\ \A q \in Targets(last.key) : q.id <= r.id

\* two symbol wrappers of the same name exist, and a value registered under
\* one form of a key was resolved under another form of it
C20_Witness ==
    /\ \E m \in madeKeys, n \in madeKeys :
          m.by = "symbolKey" /\ n.by = "symbolKey" /\ m # n /\ m.arg = n.arg
    /\ last.op = "resolve"
    /\ ~last.thrown
    /\ \E r \in AllRegs : last.val = Num(r.id) /\ r.key # last.key

(***************************************************************************)
(* SpecBadKey: one container, and callers that pass as key the string K,   *)
(* its wrapper, the constructor FooPrime, and values that are no key: a    *)
(* number, undefined, a plain object, null and an arrow function.          *)
(***************************************************************************)
BadKeyMenu ==
    {K, stringKey("K"), RawKey("function", "FooPrime"),
     NumberKey, UndefinedKey, PlainObjectKey, NullKey, ArrowKey}

BadKeyRegister ==
    \E key \in BadKeyMenu :
        Register(1, key, "transient", NoTag, ValueProvider(registrationId + 1), BadKeyRegs)

BadKeyResolve == \E key \in BadKeyMenu : ResolveCall(1, key, NoTag, MaxObjs)

NextBadKey == BadKeyRegister \/ BadKeyResolve

SpecBadKey == Init /\ [][NextBadKey]_vars

\* key is a string, a symbol, a constructor function, or a wrapper carrying
\* one of these
AcceptedKey(key) ==
    \/ key.shape \in {"string", "symbol"}
    \/ isConstructor(key)
    \/ /\ key.shape = "object"
       /\ \/ key.type \in {"string", "symbol"}
          \/ key.type = "class" /\ key.name \in ClassNames

\* C21: a resolve or register call whose key is neither a string, a symbol,
\* a constructor function nor a wrapper carrying one of these fails with the
\* invalid-key error, before any registration is selected or any provider
\* runs.
C21_InvalidKey ==
    (last.op \in {"resolve", "register"} /\ ~AcceptedKey(last.key)) =>
        /\ last.thrown
        /\ Len(last.err) = 1
        /\ last.err[1].kind = "Error"
        /\ last.err[1].msg = "invalid key"
        /\ \A i \in 1 .. Len(last.log) : last.log[i].reg = 0 /\ ~last.log[i].ran

(***************************************************************************)
(* SpecSolo: a tree of scopes without registrations, and resolves of the   *)
(* class Solo, which is decorated with @singleton(), from every scope.     *)
(***************************************************************************)
SoloCreateScope == \E p \in Scopes : CreateScope(p, SoloScopes)

SoloResolve == \E s \in Scopes : ResolveCall(s, RawKey("function", "Solo"), NoTag, SoloObjs)

NextSolo == SoloCreateScope \/ SoloResolve

SpecSolo == Init /\ [][NextSolo]_vars

\* C22: a class decorated with singleton() is resolved as a single instance:
\* all resolves of the class that no registration answered, from any scopes
\* of the tree, return the identical object.
C22_SingletonClass ==
    \A e1 \in hist, e2 \in hist :
        ( /\ e1.reg = 0 /\ e2.reg = 0
          /\ e1.key = e2.key
          /\ isConstructor(e1.key)
          /\ ClassLifetime(e1.key.name) = "single" )
            => e1.val = e2.val

(***************************************************************************)
(* SpecRegistry: the Registry of one container.  Registrations of the      *)
(* keys K and H, untagged or tagged '', 'a' or 'b', are added through      *)
(* register (which stamps them with the next id and calls Registry.set),   *)
(* and container.registry.get and container.registry.has are called with   *)
(* every key and tag; last keeps what the call returned.                   *)
(***************************************************************************)
RegistryTags == {NoTag, "", "a", "b"}

RegistryRegister ==
    \E key \in {K, H}, tag \in RegistryTags :
        Register(1, key, "transient", tag, ValueProvider(registrationId + 1), RegistryRegs)

RegistryGetCall ==
    \E key \in {K, H}, tag \in RegistryTags :
        /\ last' = [op |-> "get", s |-> 1, key |-> key, tag |-> tag,
                    reg |-> RegistryGet(registry[1], key, tag)]
        /\ UNCHANGED <<parent, root, registry, scope, registrationId, objectCount, hist,
                       stack, madeKeys>>

RegistryHasCall ==
    \E key \in {K, H}, tag \in RegistryTags :
        /\ last' = [op |-> "has", s |-> 1, key |-> key, tag |-> tag,
                    has |-> RegistryHas(registry[1], key, tag)]
        /\ UNCHANGED <<parent, root, registry, scope, registrationId, objectCount, hist,
                       stack, madeKeys>>

NextRegistry == RegistryRegister \/ RegistryGetCall \/ RegistryHasCall

SpecRegistry == Init /\ [][NextRegistry]_vars

\* the registrations inserted for the identity, and those of them with the tag
Inserted(key) == {r \in AllRegs : getLookupKey(r.key) = key}

InsertedTagged(key, tag) == {r \in Inserted(key) : r.tag = tag}

\* r is the one of regs that was inserted last
IsLatest(r, regs) == r \in regs /\ \A q \in regs : q.id <= r.id

\* C23: Registry.get(identity) without a tag returns the last registration
\* inserted for the identity, whatever its tag, and returns absent exactly
\* when no registration was ever inserted for it (every registration made is
\* still held).
C23_GetUntagged ==
    /\ Cardinality(AllRegs) = registrationId
    /\ (last.op = "get" /\ last.tag = NoTag) =>
          IF Inserted(last.key) = {}
          THEN last.reg = NoReg
          ELSE IsLatest(last.reg, Inserted(last.key))

\* an untagged get returned a tagged registration, an untagged one being held
\* for the same identity
C23_Witness ==
    /\ last.op = "get" /\ last.tag = NoTag
    /\ last.reg # NoReg /\ last.reg.tag = "a"
    /\ InsertedTagged(last.key, NoTag) # {}

\* C24: Registry.get(identity, tag) with a non-empty tag returns the most
\* recently inserted registration of the identity whose tag equals the given
\* tag, absent if none matches, never an untagged or differently tagged one.
C24_GetTagged ==
    (last.op = "get" /\ TagTruthy(last.tag)) =>
        IF InsertedTagged(last.key, last.tag) = {}
        THEN last.reg = NoReg
        ELSE IsLatest(last.reg, InsertedTagged(last.key, last.tag))

\* a tagged get returned the later of two registrations with its tag, a
\* registration with another tag having been inserted after it
C24_Witness ==
    /\ last.op = "get" /\ TagTruthy(last.tag)
    /\ last.reg # NoReg
    /\ \E q \in InsertedTagged(last.key, last.tag) : q.id < last.reg.id
    /\ \E q \in Inserted(last.key) : q.id > last.reg.id

\* list a is the beginning of list b
IsPrefix(a, b) == Len(a) <= Len(b) /\ SubSeq(b, 1, Len(a)) = a

\* C25: Registry.set is append-only.  A register step for identity k leaves
\* the lists of all other identities unchanged and makes the list of k its
\* previous content followed by the new registration; no step removes,
\* replaces or reorders an earlier registration.
C25_AppendOnly ==
    [][ /\ \A k \in DOMAIN registry[1] :
              k \in DOMAIN registry'[1] /\ IsPrefix(registry[1][k], registry'[1][k])
        /\ last'.op = "register" =>
              LET k == getLookupKey(last'.key)
                  before == IF k \in DOMAIN registry[1] THEN registry[1][k] ELSE << >>
              IN /\ DOMAIN registry'[1] = DOMAIN registry[1] \cup {k}
                 /\ Len(registry'[1][k]) = Len(before) + 1
                 /\ registry'[1][k][Len(before) + 1].id = registrationId'
                 /\ registry'[1][k][Len(before) + 1].tag = last'.tag
                 /\ \A j \in DOMAIN registry[1] \ {k} : registry'[1][j] = registry[1][j]
      ]_vars

\* an identity holds three registrations in the order they were made, beside
\* none of another identity
C25_Witness ==
    /\ last.op = "register"
    /\ K \in DOMAIN registry[1]
    /\ Len(registry[1][K]) = 3
    /\ \A i \in 1 .. 3 : registry[1][K][i].id = i

\* C26: in every reachable registry state, for every identity and every tag
\* (absent and '' included), Registry.has(identity, tag) is true exactly
\* when Registry.get(identity, tag) returns a registration.
C26_HasIsGet ==
    /\ \A key \in {K, H}, tag \in RegistryTags :
          RegistryHas(registry[1], key, tag) <=> (RegistryGet(registry[1], key, tag) # NoReg)
    /\ last.op = "has" =>
          (last.has <=> (RegistryGet(registry[1], last.key, last.tag) # NoReg))

\* has was asked for a tag no registration of a held identity carries, and
\* answered false
C26_Witness ==
    /\ last.op = "has" /\ TagTruthy(last.tag)
    /\ ~last.has
    /\ last.key \in DOMAIN registry[1]

(***************************************************************************)
(* SpecShadow: a tree of up to three scopes, registrations of K untagged or *)
(* tagged 'a' on any scope, whose value is the registration's id, and      *)
(* resolves of K with and without the tag from any scope.                  *)
(***************************************************************************)
ShadowCreateScope == \E p \in Scopes : CreateScope(p, ShadowScopes)

ShadowRegister ==
    \E s \in Scopes, tag \in {NoTag, "a"} :
        Register(s, K, "transient", tag, ValueProvider(registrationId + 1), ShadowRegs)

ShadowResolve == \E s \in Scopes, tag \in {NoTag, "a"} : ResolveCall(s, K, tag, MaxObjs)

NextShadow == ShadowCreateScope \/ ShadowRegister \/ ShadowResolve

SpecShadow == Init /\ [][NextShadow]_vars

\* the registrations held by scope c
RegsOf(c) ==
    UNION {{registry[c][k][i] : i \in 1 .. Len(registry[c][k])} : k \in DOMAIN registry[c]}

\* the registrations of scope c that are a match for (key, tag): those of
\* the identity that carry the tag, all those of the identity when no tag
\* is asked for
Matching(c, key, tag) ==
    {r \in RegsOf(c) : getLookupKey(r.key) = key /\ (TagTruthy(tag) => r.tag = tag)}

\* the scopes on the chain from s to the root that have a match
Holders(s, key, tag) == {c \in ChainOf(s) : Matching(c, key, tag) # {}}

\* the one of them nearest to s
NearestHolder(s, key, tag) ==
    CHOOSE c \in Holders(s, key, tag) : Holders(s, key, tag) \subseteq ChainOf(c)

\* C27: resolve uses the registration of the nearest scope on the chain from
\* the originating scope to the root that has a match for (identity, tag): a
\* child's match shadows an ancestor's, and a scope holding the identity
\* without the requested tag is passed over.
C27_NearestMatch ==
    last.op = "resolve" =>
        LET key == getLookupKey(last.key)
        IN IF Holders(last.s, key, last.tag) = {}
           THEN last.thrown
           ELSE LET c == NearestHolder(last.s, key, last.tag)
                IN /\ ~last.thrown
                   /\ Top.at = c
                   /\ \E r \in Matching(c, key, last.tag) :
                         /\ IsLatest(r, Matching(c, key, last.tag))
                         /\ last.val = Num(r.id)

\* a tagged resolve from the child passed over the child's untagged
\* registration of the identity and used the parent's tagged one
C27_Witness ==
    /\ last.op = "resolve" /\ last.s = 2 /\ last.tag = "a" /\ ~last.thrown
    /\ Top.at = 1
    /\ K \in DOMAIN registry[2]

\* Scopes beside one another: any scope creates children, any scope
\* registers an untagged registration of K, any scope resolves K.
AsideCreateScope == \E p \in Scopes : CreateScope(p, AsideScopes)

AsideRegister ==
    \E s \in Scopes :
        Register(s, K, "transient", NoTag, ValueProvider(registrationId + 1), AsideRegs)

AsideResolve == \E s \in Scopes : ResolveCall(s, K, NoTag, MaxObjs)

NextAside == AsideCreateScope \/ AsideRegister \/ AsideResolve

SpecAside == Init /\ [][NextAside]_vars

\* what s.resolve(K, tag) would give in the present state: thrown or not,
\* the value, the error, and the caches it leaves
Outcome(s, tag) ==
    LET Of(r) == <<r.thrown, r.val, r.err, r.st.scope>>
    IN Of(Resolve(s, K, tag,
                  [scope |-> scope, objectCount |-> objectCount, log |-> << >>,
                   busy |-> FALSE],
                  MaxDepth))

\* C30: registries are never merged across the tree.  The registration a
\* resolve uses is held by a scope on the chain from the originating scope
\* to the root, and a register call on scope c changes the outcome (value
\* or error) of no resolve that originates in a scope outside c's subtree:
\* an ancestor of c, a sibling, or any other scope whose chain does not
\* pass through c.
C30_NoMerge ==
    /\ [](LastSelected => ScopeOfReg(Top.reg) \in ChainOf(last.s))
    /\ [][last'.op = "register" =>
            \A s \in Scopes, tag \in {NoTag, "a"} :
                (last'.s \notin ChainOf(s)) => Outcome(s, tag)' = Outcome(s, tag)]_vars

\* a child registered K while its parent held a registration of K of its
\* own and the child had a sibling
C30_Witness ==
    /\ last.op = "register" /\ last.s = 2
    /\ Len(parent) = 3 /\ parent[2] = 1 /\ parent[3] = 1
    /\ K \in DOMAIN registry[1]

\* the last call was a resolve that selected a registration of the lifetime
LastOfLifetime(lifetime) == LastSelected /\ RegById(Top.reg).lifetime = lifetime

\* C28: a 'scope' resolve originating at scope s reads and writes only the
\* cache of s for the resolved (identity, tag).  When that slot of s holds a
\* value the resolve returns it and changes nothing; otherwise the provider
\* runs, whatever the caches of other scopes hold, and the value is stored
\* in s.  The cache of the ancestor where the registration was found and
\* the caches of all other scopes are unchanged.
C28_ScopeFrame ==
    [][ LastOfLifetime("scope")' =>
            LET s == last'.s
                before == getScopeValue(scope[s], K, NoTag)
            IN /\ \A c \in Scopes \ {s} : scope'[c] = scope[c]
               /\ IF Truthy(before)
                  THEN /\ last'.val = before
                       /\ scope' = scope
                       /\ objectCount' = objectCount
                  ELSE /\ Top'.ran
                       /\ objectCount' = objectCount + 1
                       /\ getScopeValue(scope'[s], K, NoTag) = last'.val
      ]_vars

\* a 'scope' resolve from a descendant used a registration of an ancestor
\* whose own cache held another object for the key, and left it there
C28_Witness ==
    /\ LastOfLifetime("scope")
    /\ Top.at # last.s
    /\ Truthy(getScopeValue(scope[Top.at], K, NoTag))
    /\ getScopeValue(scope[Top.at], K, NoTag) # last.val
    /\ getScopeValue(scope[last.s], K, NoTag) = last.val

\* C29: a 'single' resolve reads and writes only the root's cache for the
\* resolved (identity, tag), wherever it starts and wherever the registration
\* lives; and whenever a resolve changes the cache of a scope other than the
\* one it originated in, that scope is the root and the change was made for
\* a 'single' registration.
C29_SingleFrame ==
    [][ (last'.op = "resolve") =>
            /\ LastOfLifetime("single")' =>
                  LET r == root[last'.s]
                      before == getScopeValue(scope[r], K, NoTag)
                  IN /\ \A c \in Scopes \ {r} : scope'[c] = scope[c]
                     /\ IF Truthy(before)
                        THEN /\ last'.val = before
                             /\ scope' = scope
                             /\ objectCount' = objectCount
                        ELSE /\ Top'.ran
                             /\ objectCount' = objectCount + 1
                             /\ getScopeValue(scope'[r], K, NoTag) = last'.val
            /\ \A c \in Scopes \ {last'.s} :
                  scope'[c] # scope[c] =>
                      /\ c = root[last'.s]
                      /\ \E i \in 1 .. Len(last'.log) :
                            /\ last'.log[i].ran
                            /\ last'.log[i].reg # 0
                            /\ RegById(last'.log[i].reg).lifetime = "single"
      ]_vars

\* a 'single' resolve from the grandchild used a registration living on the
\* child and stored its value in the root's cache, not in the child's or in
\* the grandchild's
C29_Witness ==
    /\ LastOfLifetime("single")
    /\ last.s = 3 /\ parent[3] = 2
    /\ Top.at = 2 /\ Top.ran
    /\ getScopeValue(scope[1], K, NoTag) = last.val
    /\ scope[2] = EmptyMap /\ scope[3] = EmptyMap

(***************************************************************************)
(* Frame of resolve on the registries, under SpecWire.                     *)
(***************************************************************************)
\* C31: resolve never changes a registry.  Across every resolve step,
\* whether it returned a value, threw, or was served by the class fallback,
\* every scope's registry holds exactly the registrations it held before.
C31_RegistryFrame == [][last'.op = "resolve" => registry' = registry]_vars

\* an unregistered class was built by the fallback, through a nested resolve
\* of a registered key, while the root held a registration
C31_Witness ==
    /\ last.op = "resolve" /\ ~last.thrown
    /\ last.key = RawKey("function", "Foo") /\ last.tag = NoTag
    /\ Top.reg = 0
    /\ RawKey("function", "Bar") \in DOMAIN registry[1]

(***************************************************************************)
(* A failed dependency slot, under SpecFail.                               *)
(***************************************************************************)
\* the objects the resolveInner calls of a log returned
ReturnedObjects(log) ==
    {log[i].val.id : i \in {j \in 1 .. Len(log) : ~log[j].thrown /\ log[j].val.t = "object"}}

\* C32: when the resolve of slot i of a class built by the fallback fails,
\* it is the last slot resolved (no slot of greater index is resolved), the
\* call throws an error that names slot i and carries the slot's failure as
\* its cause, no value is returned (no default takes the place of the slot),
\* and the class constructor did not run: every object allocated during the
\* call is the value some nested resolve returned.
C32_SlotFailure ==
    /\ []( (FallbackCase /\ \E i \in 1 .. Len(Nested) : Failed(Nested[i])) =>
              LET i == CHOOSE j \in 1 .. Len(Nested) : Failed(Nested[j])
              IN /\ i = Len(Nested)
                 /\ last.thrown /\ last.val = Undefined
                 /\ Top.thrown /\ Top.val = Undefined
                 /\ Len(last.err) >= 2
                 /\ last.err[1].kind = "ResolveError"
                 /\ last.err[1].cls = getLookupKey(last.key).name
                 /\ last.err[1].index = i - 1
                 /\ Nested[i].key = getLookupKey(LastParameters[i].key) )
    /\ [][(FallbackCase' /\ last'.thrown) =>
             \A id \in (objectCount + 1) .. objectCount' :
                 id \in ReturnedObjects(last'.log)]_vars

\* Outer was resolved with Magic registered: slot 0 (Zul) was built, slot 1
\* (NoType) failed, and no Outer was constructed
C32_Witness ==
    /\ FallbackCase /\ last.thrown
    /\ last.key = RawKey("function", "Outer")
    /\ Len(Nested) = 2 /\ ~Failed(Nested[1]) /\ Failed(Nested[2])
    /\ last.err[1].index = 1

(***************************************************************************)
(* Whose provider produced a returned value, under Spec (K registered      *)
(* untagged with any lifetime in a parent and its child, each provider     *)
(* allocating a new object stamped with its registration's id).            *)
(***************************************************************************)
\* C33 as stated: whenever resolve finds a registration and returns a value,
\* the value was produced by that registration's own provider.
C33_Original == (LastSelected /\ ~last.thrown) => last.val.by = Top.reg

\* C33: whenever resolve finds a registration R and returns a value, either
\* the call executed R's provider and returns what that execution produced,
\* or R's lifetime is 'scope' or 'single' and the value is the one the cache
\* of that lifetime (the originating scope's for 'scope', the root's for
\* 'single') already held for (identity, tag); that value was returned by an
\* earlier resolve of the same (identity, tag) and produced by the provider
\* of the registration that resolve had selected, which need not be R.
C33_OwnOrCached ==
    [][(LastSelected' /\ ~last'.thrown) =>
          IF Top'.ran
          THEN /\ last'.val.by = Top'.reg
               /\ last'.val.id = objectCount' /\ objectCount' = objectCount + 1
          ELSE /\ Top'.hit
               /\ (RegById(Top.reg).lifetime)' \in {"scope", "single"}
               /\ last'.val = getScopeValue(scope[LastOwner'], Top'.key, last'.tag)
               /\ objectCount' = objectCount
               /\ \E e \in hist : /\ e.val = last'.val
                                  /\ e.key = Top'.key /\ e.tag = last'.tag
                                  /\ e.reg = e.val.by]_vars

\* the child selected its own 'single' registration and was handed the
\* object the root's registration had produced
C33_Witness ==
    /\ LastSelected /\ ~last.thrown /\ Top.hit
    /\ last.s = 2 /\ Top.at = 2
    /\ RegById(Top.reg).lifetime = "single"
    /\ last.val.by # Top.reg
    /\ ScopeOfReg(last.val.by) = 1

(***************************************************************************)
(* A provider that fails, under SpecDep: the provider of H asks its        *)
(* context for K and fails when K cannot be resolved.                      *)
(***************************************************************************)
\* the cache map of scope s has an entry, whatever its value, for (key, tag)
HasEntry(cache, key, tag) ==
    key \in DOMAIN cache /\ ValueKey(tag) \in DOMAIN cache[key]

\* the last call was a resolve that selected a 'scope' or 'single'
\* registration and executed its provider, which threw
ProviderFailed ==
    /\ LastSelected /\ Top.ran /\ Top.thrown
    /\ RegById(Top.reg).lifetime \in {"scope", "single"}

\* C34: when the provider of a 'scope' or 'single' registration throws, the
\* error reaches the caller, the cache the lifetime consults has no entry
\* for the resolved (identity, tag), no cache was changed by the call, and
\* the next resolve of that (identity, tag) from the same scope executes
\* the provider again; more generally a resolve that selects a 'scope' or
\* 'single' registration while its cache has no entry executes the provider.
C34_FailureNotCached ==
    /\ [](ProviderFailed =>
             /\ last.thrown /\ Len(last.err) >= 1 /\ last.val = Undefined
             /\ ~HasEntry(scope[LastOwner], Top.key, last.tag))
    /\ [][ /\ ProviderFailed' => scope' = scope
           /\ ( /\ ProviderFailed
                /\ LastSelected'
                /\ last'.s = last.s /\ last'.key = last.key /\ last'.tag = last.tag )
              => Top'.ran
           /\ ( /\ LastSelected'
                /\ (RegById(Top.reg).lifetime)' \in {"scope", "single"}
                /\ ~HasEntry(scope[LastOwner'], Top'.key, last'.tag) )
              => Top'.ran ]_vars

\* H, registered as 'single', was resolved from the child while K was not
\* registered: the provider threw and the root's cache has no entry for H
C34_Witness ==
    /\ ProviderFailed /\ last.key = H /\ last.s = 2
    /\ RegById(Top.reg).lifetime = "single"
    /\ ~HasEntry(scope[1], H, NoTag)
    /\ last.err[1].key = K

(***************************************************************************)
(* SpecVoid: providers whose value is undefined.  K is registered          *)
(* untagged, with any lifetime, in a parent or its child, with the         *)
(* callback () => undefined, the constant 0 or a provider allocating a new *)
(* object; K is resolved from any scope.                                   *)
(***************************************************************************)
VoidCreateScope == \E p \in Scopes : CreateScope(p, VoidScopes)

\* the providers registered: () => undefined, the constant 0, () => ({})
VoidProviders == {VoidProvider, ValueProvider(0), NewProvider}

VoidRegister ==
    \E s \in Scopes, lifetime \in Lifetimes, provider \in VoidProviders :
        Register(s, K, lifetime, NoTag, provider, VoidRegs)

VoidResolve == \E s \in Scopes : ResolveCall(s, K, NoTag, VoidObjs)

NextVoid == VoidCreateScope \/ VoidRegister \/ VoidResolve

SpecVoid == Init /\ [][NextVoid]_vars

\* C35: resolve throws the 'no registration found' ResolveError only when
\* no scope on the chain holds a matching registration (and the class
\* fallback does not apply); when a registration was found, resolve returns
\* what its provider produced or answers from the cache, whatever the value.
C35_NotFoundOnlyUnregistered ==
    last.op = "resolve" =>
        /\ (last.thrown /\ last.err = <<NotFound(last.key, last.tag)>>)
              => ~HasMatch(last.s, getLookupKey(last.key), last.tag)
        /\ LastSelected => (~last.thrown /\ last.val = Top.val)

(***************************************************************************)
(* Executions of a 'scope' provider within one scope, under SpecTag.  The  *)
(* provider allocates a new object on each execution, stamped with the id  *)
(* of its registration, so the objects a scope was handed count the        *)
(* executions made for it.                                                 *)
(***************************************************************************)
\* the objects the provider of registration id produced for resolves that
\* originated in scope s and selected that registration
ProducedFor(id, s) ==
    {e.val : e \in {h \in hist : h.s = s /\ h.reg = id /\ h.val.by = id}}

\* C36: within one scope the provider of a 'scope' registration is executed
\* at most once, whichever mix of untagged and tagged resolves selects the
\* registration.
C36_ScopeOnce ==
    \A r \in AllRegs, s \in Scopes :
        r.lifetime = "scope" => Cardinality(ProducedFor(r.id, s)) <= 1

(***************************************************************************)
(* SpecFirst: who resolves a 'single' first.  H is registered on the root  *)
(* as 'single' with a provider that asks its context for K and stores the  *)
(* result in a new object; K is registered as 'transient' in any scope,    *)
(* each registration providing its own constant (its id); H and K are      *)
(* resolved from any scope.                                                *)
(***************************************************************************)
FirstCreateScope == \E p \in Scopes : CreateScope(p, FirstScopes)

FirstRegister ==
    \/ Register(1, H, "single", NoTag, HolderProvider, FirstRegs)
    \/ \E s \in Scopes :
          Register(s, K, "transient", NoTag, ValueProvider(registrationId + 1), FirstRegs)

FirstResolve == \E s \in Scopes, key \in {H, K} : ResolveCall(s, key, NoTag, FirstObjs)

NextFirst == FirstCreateScope \/ FirstRegister \/ FirstResolve

SpecFirst == Init /\ [][NextFirst]_vars

\* first.resolve(H) followed by second.resolve(H), both made in the present
\* state: the two results
ThenResolve(first, second) ==
    LET Second(r1) ==
            [first |-> r1,
             second |-> Resolve(second, H, NoTag, [r1.st EXCEPT !.log = << >>], MaxDepth)]
    IN Second(Resolve(first, H, NoTag,
                      [scope |-> scope, objectCount |-> objectCount, log |-> << >>,
                       busy |-> FALSE],
                      MaxDepth))

\* H is registered, no instance of H is shared yet, and the root and the
\* child c each hold a registration of K of their own
BothHoldDependency(c) ==
    /\ H \in DOMAIN registry[1]
    /\ ~Truthy(getScopeValue(scope[1], H, NoTag))
    /\ K \in DOMAIN registry[1] /\ K \in DOMAIN registry[c]

\* C37 as stated: the run in which the root resolves H first and the run in
\* which the child resolves it first end with the same dependency value
\* inside the shared instance.
C37_Original ==
    \A c \in Scopes \ {1} :
        BothHoldDependency(c) =>
            ThenResolve(1, c).second.val.args = ThenResolve(c, 1).second.val.args

\* C37: the instance shared by a 'single' registration is built by the
\* first resolve, with the dependency resolved from the scope that made that
\* resolve: in the run in which the root resolves first the shared instance
\* holds the value K resolves to from the root, in the run in which the
\* child resolves first it holds the value K resolves to from the child, and
\* in both runs the second resolve returns the instance the first one built.
\* The same holds of the calls made: a resolve of H that executes the
\* provider stores the value K resolves to from the originating scope.
C37_FirstResolverDecides ==
    /\ [](\A c \in Scopes \ {1} :
             BothHoldDependency(c) =>
                \A first \in {1, c} :
                    LET Run(run) ==
                            /\ ~run.first.thrown /\ ~run.second.thrown
                            /\ run.second.val = run.first.val
                            /\ run.first.val.args = <<Outcome(first, NoTag)[2]>>
                            /\ getScopeValue(run.second.st.scope[1], H, NoTag)
                                  = run.first.val
                    IN Run(ThenResolve(first, IF first = 1 THEN c ELSE 1)))
    /\ [][(LastSelected' /\ last'.key = H /\ Top'.ran /\ ~last'.thrown) =>
             last'.val.args = <<Outcome(last'.s, NoTag)[2]>>]_vars

\* the child resolved H first while the root and the child each held a
\* registration of K: the shared instance holds the child's value of K,
\* which is not the one K resolves to from the root
C37_Witness ==
    /\ LastSelected /\ last.key = H /\ last.s = 2 /\ Top.ran /\ ~last.thrown
    /\ K \in DOMAIN registry[1] /\ K \in DOMAIN registry[2]
    /\ getScopeValue(scope[1], H, NoTag) = last.val
    /\ last.val.args # <<Outcome(1, NoTag)[2]>>

(***************************************************************************)
(* The class fallback and the caches, under SpecWire.                      *)
(***************************************************************************)
\* C38: values built by the class fallback are never cached.  After a
\* resolve served by the fallback no scope's cache holds an entry for the
\* class, the call changed no cache slot of the class, and the instance it
\* returns was allocated in this call: it is none of the values any earlier
\* resolve returned, from the same scope or another.
C38_FallbackNotCached ==
    /\ [](FallbackCase =>
             \A s \in Scopes, tag \in {NoTag, "a"} :
                 ~HasEntry(scope[s], getLookupKey(last.key), tag))
    /\ [][FallbackCase' =>
             /\ \A s \in Scopes :
                   \A tag \in {NoTag, "a"} :
                      getScopeValue(scope'[s], getLookupKey(last'.key), tag)
                         = getScopeValue(scope[s], getLookupKey(last'.key), tag)
             /\ ~last'.thrown =>
                   /\ last'.val.t = "object"
                   /\ last'.val.id = objectCount' /\ objectCount' > objectCount
                   /\ \A e \in hist : e.val # last'.val]_vars

\* the class Bar, registered nowhere, was resolved from the root and then
\* from the child, and the two instances differ
C38_Witness ==
    /\ FallbackCase /\ ~last.thrown
    /\ last.key = RawKey("function", "Bar") /\ last.s = 2
    /\ \E e \in hist : /\ e.s = 1 /\ e.key = RawKey("function", "Bar") /\ e.reg = 0
                        /\ e.val # last.val
    /\ scope[1] = EmptyMap /\ scope[2] = EmptyMap

(***************************************************************************)
(* A register call that fails, under SpecBadKey.                           *)
(***************************************************************************)
\* C39: a register call that fails because its key is invalid leaves the
\* container state as it was: every registry, every cache and the
\* registration id counter (and with it the id the registration object
\* carries, which is the counter's value) are the same as before the call.
C39_FailedRegisterFrame ==
    [][(last'.op = "register" /\ last'.thrown) =>
          /\ registry' = registry
          /\ scope' = scope
          /\ registrationId' = registrationId]_vars

(***************************************************************************)
(* SpecIds: registration ids.  K is registered (and the number 7, which is *)
(* no key, is offered to register) in a parent and its child, and the id   *)
(* counter is reset, in any order.                                         *)
(***************************************************************************)
\* resetIds()
ResetIds ==
    /\ registrationId' = 0
    /\ last' = [NoCall EXCEPT !.op = "resetIds"]
    /\ UNCHANGED <<parent, root, registry, scope, objectCount, hist, stack, madeKeys>>

\* the places of the registrations held: scope, lookup key, index in the list
Places ==
    UNION {UNION {{<<s, k, i>> : i \in 1 .. Len(registry[s][k])} :
                     k \in DOMAIN registry[s]} : s \in Scopes}

\* the id of the registration at a place
IdAt(place) == registry[place[1]][place[2]][place[3]].id

\* the number of registrations held by all registries together
HeldCount == Cardinality(Places)

IdsCreateScope == \E p \in Scopes : CreateScope(p, IdsScopes)

IdsRegister ==
    /\ HeldCount < IdsHeld
    /\ \E s \in Scopes, key \in {K, NumberKey} :
          Register(s, key, "transient", NoTag, NewProvider, IdsRegs)

NextIds == IdsCreateScope \/ IdsRegister \/ ResetIds

SpecIds == Init /\ [][NextIds]_vars

\* within every list the ids increase strictly in insertion order, and no
\* two registrations held anywhere share an id
IdsInOrder ==
    /\ \A p, q \in Places :
          (p[1] = q[1] /\ p[2] = q[2] /\ p[3] < q[3]) => IdAt(p) < IdAt(q)
    /\ \A p, q \in Places : p # q => IdAt(p) # IdAt(q)

\* C40 as stated: after any sequence of register and resetIds calls the ids
\* are strictly increasing within every list and shared by no two
\* registrations.
C40_Original == IdsInOrder

\* C40: every register call advances the counter by one and a registration
\* it inserts carries the new value of the counter (1 for the first call
\* after a reset, then 2); so, as long as resetIds is not called, the ids
\* are strictly increasing within every list, shared by no two
\* registrations, and at most the counter.  resetIds puts the counter back
\* to 0 and leaves the registries alone, after which ids already held are
\* assigned again.
C40_IdsUntilReset ==
    /\ (IdsInOrder /\ \A p \in Places : IdAt(p) <= registrationId)
    /\ [][ /\ last'.op = "register" =>
                /\ registrationId' = registrationId + 1
                /\ ~last'.thrown =>
                      LET list == registry'[last'.s][getLookupKey(last'.key)]
                      IN list[Len(list)].id = registrationId'
           /\ last'.op = "resetIds" => (registrationId' = 0 /\ registry' = registry)
           /\ ( /\ last'.op # "resetIds"
                /\ IdsInOrder /\ \A p \in Places : IdAt(p) <= registrationId )
              => (IdsInOrder /\ \A p \in Places : IdAt(p) <= registrationId)' ]_vars

\* two registrations of K were made on the root, one after the other: they
\* carry the ids 1 and 2 and the counter stands at 2
C40_Witness ==
    /\ last.op = "register" /\ ~last.thrown /\ registrationId = 2
    /\ K \in DOMAIN registry[1] /\ Len(registry[1][K]) = 2
    /\ registry[1][K][1].id = 1 /\ registry[1][K][2].id = 2

====
